---- MODULE Spec2Model ----
(***************************************************************************)
(* Transfer engine and peer-connection state machine of dctoolkit:         *)
(* Download (gating pipeline, Close, handleExit), upload (newUpload,       *)
(* handleExit) and connPeer (do loop, handleMessage, exit handler).        *)
(*                                                                         *)
(* Every block of code that runs while the client mutex is held is one     *)
(* action.  A goroutine position between two such blocks is a value of pc  *)
(* (downloads) or of run and state (connections).  Reading a message and   *)
(* handling it in the next loop iteration is one action whose input is the *)
(* message; a transport failure followed by the exit handler is one        *)
(* action.                                                                 *)
(***************************************************************************)
EXTENDS Integers, FiniteSets, Sequences, TLC

\* ------------------------------------------------------------- bounds
\* downloads the embedder creates
MaxDl == 3
\* peer connections accepted or dialed
MaxConn == 2
\* uploads accepted
MaxUp == 2
\* ClientConf.DownloadSlots / ClientConf.UploadSlots
DownloadSlots == 1
UploadSlots == 1
\* direction-election bets are drawn from 1..MaxBet
MaxBet == 2
\* calls of Download.Close on one download
MaxClose == 2

Nicks == {"a", "b"}
NoNick == ""
DlIds == 1..MaxDl
ConnIds == 1..MaxConn
UpIds == 1..MaxUp
Directions == {"upload", "download"}
Keys == Nicks \X Directions

\* a transfer is a download <<"d", i>> or an upload <<"u", j>>; NoTransfer is nil
NoTransfer == <<"n", 0>>
Dl(d) == <<"d", d>>
Up(u) == <<"u", u>>

VARIABLES
    protoIsAdc,             \* Client.protoIsAdc
    mutex,                  \* Client.mutex: "free", or "stuck" when its holder is blocked for ever in a channel send,
                            \* or "panic" when its holder panicked and the process is gone
    transfers,              \* Client.transfers
    activeDownloadsByPeer,  \* Client.activeDownloadsByPeer: nick -> download, 0 when absent
    downloadSlotAvail,      \* Client.downloadSlotAvail
    uploadSlotAvail,        \* Client.uploadSlotAvail
    connPeers,              \* Client.connPeers
    connPeersByKey,         \* Client.connPeersByKey: (nick, direction) -> connection, 0 when absent
    dl,                     \* the Download objects, with the position of each one's goroutine
    conn,                   \* the connPeer objects
    up,                     \* the upload objects
    dlWoken,                \* downloads that left waiting_activedl through a wake-up
    remote                  \* the client at the other end of a peer link: its state as a value

vars == <<protoIsAdc, mutex, transfers, activeDownloadsByPeer, downloadSlotAvail,
          uploadSlotAvail, connPeers, connPeersByKey, dl, conn, up, dlWoken, remote>>

\* ------------------------------------------------------------- objects
\* DownloadConf, the fields the transfer reads: Start, Length (-1: up to the end of the
\* file), SavePath # "" (FALSE: the content is kept in RAM), SkipValidation, isFilelist,
\* and noZlib, the PeerDisableCompression of the client's configuration.
\* PlainConf asks for a whole file by its TTH, kept in RAM and validated.
PlainConf ==
    [start |-> 0, length |-> -1, savePath |-> FALSE, skipValidation |-> FALSE,
     isFilelist |-> FALSE, noZlib |-> FALSE]

\* Download as DownloadFile leaves it; pc is the position of the goroutine do():
\*   none (not created), start, sel_activedl, gate_slot, sel_slot, gate_peer, sel_peer,
\*   write (about to write GetFile), exiting (do's inner function returned err), done.
\* writer is "" (nil), "open" or "closed"; tmp and final tell whether the files
\* conf.SavePath + ".tmp" and conf.SavePath exist; tthOk tells whether the content
\* written so far (d.content or the .tmp file) hashes to conf.TTH.
NoDownload ==
    [pc |-> "none", peer |-> NoNick, state |-> "", terminateRequested |-> FALSE,
     terminate |-> 0, pconn |-> 0, adcToken |-> 0, err |-> "",
     conf |-> PlainConf, length |-> 0, offset |-> 0, writer |-> "",
     tmp |-> FALSE, final |-> FALSE, tthOk |-> FALSE,
     sent |-> 0,
     exits |-> 0, cbSuccess |-> 0, cbError |-> 0, closeCalls |-> 0]

NoConn ==
    [run |-> "", state |-> "", protoState |-> "", isActive |-> FALSE, peer |-> NoNick,
     direction |-> "", transfer |-> NoTransfer, adcToken |-> 0, localDirection |-> "",
     remoteDirection |-> "", localBet |-> 0, remoteBet |-> 0, closed |-> FALSE,
     err |-> "", wrote |-> <<>>, readBinary |-> FALSE]

\* run is the position of the goroutine connPeer.do: "" (not created), loop, exiting (its
\* inner function returned err), ended
NoUpload == [pconn |-> 0, state |-> "", exits |-> 0]

Created(d) == dl[d].pc # "none"
\* the process has not crashed in a panic
Alive == mutex # "panic"
NextDl == Cardinality({d \in DlIds : Created(d)}) + 1
NextConn == Cardinality({c \in ConnIds : conn[c].run # ""}) + 1
NextUp == Cardinality({u \in UpIds : up[u].pconn # 0}) + 1

\* a client after its construction, as a value
NewClient ==
    [transfers |-> {}, active |-> [n \in Nicks |-> 0], dslot |-> DownloadSlots,
     uslot |-> UploadSlots, connPeers |-> {}, byKey |-> [k \in Keys |-> 0],
     dl |-> [d \in DlIds |-> NoDownload], conn |-> [c \in ConnIds |-> NoConn],
     up |-> [u \in UpIds |-> NoUpload], mutex |-> "free", woken |-> {}, err |-> "",
     out |-> <<>>]

Init ==
    /\ protoIsAdc \in BOOLEAN
    /\ remote = NewClient
    /\ mutex = "free"
    /\ transfers = {}
    /\ activeDownloadsByPeer = [n \in Nicks |-> 0]
    /\ downloadSlotAvail = DownloadSlots
    /\ uploadSlotAvail = UploadSlots
    /\ connPeers = {}
    /\ connPeersByKey = [k \in Keys |-> 0]
    /\ dl = [d \in DlIds |-> NoDownload]
    /\ conn = [c \in ConnIds |-> NoConn]
    /\ up = [u \in UpIds |-> NoUpload]
    /\ dlWoken = {}

\* ------------------------------------------------------------- Download
\* Client.DownloadFile: the object, its registration in transfers, go d.do()
DownloadFile(n, conf) ==
    /\ mutex = "free"
    /\ dl' = [dl EXCEPT ![NextDl] =
                [NoDownload EXCEPT !.pc = "start", !.peer = n, !.state = "uninitialized",
                                   !.conf = [conf EXCEPT !.length =
                                               IF conf.length <= 0 THEN -1 ELSE @]]]
    /\ transfers' = transfers \cup {Dl(NextDl)}
    /\ UNCHANGED <<remote, protoIsAdc, mutex, activeDownloadsByPeer, downloadSlotAvail,
                   uploadSlotAvail, connPeers, connPeersByKey, conn, up, dlWoken>>

\* connPeer.close(): the socket is closed, the pending Read / WriteSync fails
ConnClose(cn, c) ==
    IF c = 0 THEN cn ELSE [cn EXCEPT ![c].closed = TRUE]

\* Close without its guard
CloseNeverNoop(d) == FALSE

\* Download.Close: the guard on terminateRequested
CloseIsNoop(d) == dl[d].terminateRequested = TRUE

\* Download.Close
Close(d) ==
    /\ mutex = "free"
    /\ Created(d)
    /\ IF CloseIsNoop(d)
       THEN /\ dl' = [dl EXCEPT ![d].closeCalls = @ + 1]
            /\ conn' = conn
            /\ mutex' = mutex
       ELSE IF dl[d].state # "processing"
            THEN \* d.terminate <- struct{}{} on a channel of capacity 1
                 /\ dl' = [dl EXCEPT ![d].closeCalls = @ + 1,
                                     ![d].terminateRequested = TRUE,
                                     ![d].terminate = IF @ < 1 THEN @ + 1 ELSE @]
                 /\ mutex' = IF dl[d].terminate < 1 THEN mutex ELSE "stuck"
                 /\ conn' = conn
            ELSE /\ dl' = [dl EXCEPT ![d].closeCalls = @ + 1,
                                     ![d].terminateRequested = TRUE]
                 /\ conn' = ConnClose(conn, dl[d].pconn)
                 /\ mutex' = mutex
    /\ UNCHANGED <<remote, protoIsAdc, transfers, activeDownloadsByPeer, downloadSlotAvail,
                   uploadSlotAvail, connPeers, connPeersByKey, up, dlWoken>>

\* a count of every transfer, uploads included
TransferCount(t) == Cardinality(t)

\* Client.DownloadCount over the transfers t
DownloadCount(t) == Cardinality({x \in t : x[1] = "d"})

\* Download.do, first gate: the per-peer gate
PeerGateWaits(n) == activeDownloadsByPeer[n] # 0

GateActiveDl(d) ==
    /\ mutex = "free"
    /\ dl[d].pc = "start"
    /\ IF PeerGateWaits(dl[d].peer)
       THEN /\ dl' = [dl EXCEPT ![d].state = "waiting_activedl", ![d].pc = "sel_activedl"]
            /\ UNCHANGED activeDownloadsByPeer
       ELSE /\ dl' = [dl EXCEPT ![d].state = "waited_activedl", ![d].pc = "gate_slot"]
            /\ activeDownloadsByPeer' = [activeDownloadsByPeer EXCEPT ![dl[d].peer] = d]
    /\ UNCHANGED <<remote, protoIsAdc, mutex, transfers, downloadSlotAvail, uploadSlotAvail,
                   connPeers, connPeersByKey, conn, up, dlWoken>>

\* a slot gate that lets a download through when no slot is left
SlotGateOffByOne(avail) == avail < 0

\* Download.do, second gate: the slot gate
SlotGateWaits(avail) == avail <= 0

GateSlot(d) ==
    /\ mutex = "free"
    /\ dl[d].pc = "gate_slot"
    /\ IF SlotGateWaits(downloadSlotAvail)
       THEN /\ dl' = [dl EXCEPT ![d].state = "waiting_slot", ![d].pc = "sel_slot"]
            /\ UNCHANGED downloadSlotAvail
       ELSE /\ dl' = [dl EXCEPT ![d].state = "waited_slot", ![d].pc = "gate_peer"]
            /\ downloadSlotAvail' = downloadSlotAvail - 1
    /\ UNCHANGED <<remote, protoIsAdc, mutex, transfers, activeDownloadsByPeer, uploadSlotAvail,
                   connPeers, connPeersByKey, conn, up, dlWoken>>

\* adcRandomToken(): a fresh token, the download's own number
adcRandomToken(d) == d

\* Download.do, third gate: an existing (nick, "download") connection is taken over,
\* otherwise a connection is requested through the hub and the download waits
GatePeer(d) ==
    /\ mutex = "free"
    /\ dl[d].pc = "gate_peer"
    /\ LET c == connPeersByKey[<<dl[d].peer, "download">>] IN
       IF c = 0
       THEN /\ dl' = [dl EXCEPT ![d].state = "waiting_peer", ![d].pc = "sel_peer",
                                ![d].adcToken = IF protoIsAdc THEN adcRandomToken(d) ELSE @]
            /\ conn' = conn
       ELSE /\ dl' = [dl EXCEPT ![d].state = "processing", ![d].pc = "write",
                                ![d].pconn = c]
            /\ conn' = [conn EXCEPT ![c].state = "delegated_download",
                                    ![c].transfer = Dl(d)]
    /\ UNCHANGED <<remote, protoIsAdc, mutex, transfers, activeDownloadsByPeer, downloadSlotAvail,
                   uploadSlotAvail, connPeers, connPeersByKey, up, dlWoken>>

\* Download.do: the select statements, case <-d.terminate
TakeTerminate(d) ==
    /\ Alive
    /\ dl[d].pc \in {"sel_activedl", "sel_slot", "sel_peer"}
    /\ dl[d].terminate > 0
    /\ dl' = [dl EXCEPT ![d].terminate = @ - 1, ![d].pc = "exiting", ![d].err = "terminated"]
    /\ UNCHANGED <<remote, protoIsAdc, mutex, transfers, activeDownloadsByPeer, downloadSlotAvail,
                   uploadSlotAvail, connPeers, connPeersByKey, conn, up, dlWoken>>

\* Download.do: the third select, case <-timeout.C after _PEER_WAIT_TIMEOUT
PeerWaitTimeout(d) ==
    /\ Alive
    /\ dl[d].pc = "sel_peer"
    /\ dl' = [dl EXCEPT ![d].pc = "exiting", ![d].err = "timed out"]
    /\ UNCHANGED <<remote, protoIsAdc, mutex, transfers, activeDownloadsByPeer, downloadSlotAvail,
                   uploadSlotAvail, connPeers, connPeersByKey, conn, up, dlWoken>>

\* Download.do: GetFile / CGET written on the peer connection, then do() returns nil
WriteGetFile(d) ==
    /\ Alive
    /\ dl[d].pc = "write"
    /\ dl' = [dl EXCEPT ![d].pc = "done", ![d].sent = @ + 1]
    /\ UNCHANGED <<remote, protoIsAdc, mutex, transfers, activeDownloadsByPeer, downloadSlotAvail,
                   uploadSlotAvail, connPeers, connPeersByKey, conn, up, dlWoken>>


\* ------------------------------------------------------------- the client's state as a value
\* The handlers below are functions from the state they find to the states they may
\* leave (several when the code ranges over a Go map, whose order is unspecified).
\* err is the error a handler returns, out the answers newUpload writes to the peer.
World ==
    [transfers |-> transfers, active |-> activeDownloadsByPeer, dslot |-> downloadSlotAvail,
     uslot |-> uploadSlotAvail, connPeers |-> connPeers, byKey |-> connPeersByKey,
     dl |-> dl, conn |-> conn, up |-> up, mutex |-> mutex, woken |-> dlWoken, err |-> "",
     out |-> <<>>]

Apply(w) ==
    /\ transfers' = w.transfers
    /\ activeDownloadsByPeer' = w.active
    /\ downloadSlotAvail' = w.dslot
    /\ uploadSlotAvail' = w.uslot
    /\ connPeers' = w.connPeers
    /\ connPeersByKey' = w.byKey
    /\ dl' = w.dl
    /\ conn' = w.conn
    /\ up' = w.up
    /\ mutex' = w.mutex
    /\ dlWoken' = w.woken
    /\ UNCHANGED <<remote, protoIsAdc>>

\* a range over a Go map that stops at the first match: any match, 0 when there is none
FirstMatch(S) == IF S = {} THEN {0} ELSE S

\* an unbuffered send to a download's goroutine: it is received when the goroutine is
\* in the select that reads the channel, otherwise the sender blocks holding the mutex
WakeUp(w, od, at, to) ==
    IF w.dl[od].pc = at
    THEN [w EXCEPT !.dl[od].pc = to]
    ELSE [w EXCEPT !.mutex = "stuck"]

\* a first loop that finds nobody
NoActiveDlWaiters(w, d) == {}

\* a first loop that does not compare the peers
ActiveDlWaitersAnyPeer(w, d) ==
    {od \in DlIds : /\ Dl(od) \in w.transfers
                    /\ w.dl[od].terminateRequested = FALSE
                    /\ w.dl[od].state = "waiting_activedl"}

\* Download.handleExit: the downloads the first loop may unlock
ActiveDlWaiters(w, d) ==
    {od \in DlIds : /\ Dl(od) \in w.transfers
                    /\ w.dl[od].terminateRequested = FALSE
                    /\ w.dl[od].state = "waiting_activedl"
                    /\ w.dl[d].peer = w.dl[od].peer}

\* Download.handleExit: the downloads the second loop may unlock
SlotWaiters(w) ==
    {od \in DlIds : /\ Dl(od) \in w.transfers
                    /\ w.dl[od].terminateRequested = FALSE
                    /\ w.dl[od].state = "waiting_slot"}

\* callbacks that report every exit as an error
CallbacksErrorOnly(w, d, err) ==
    [w EXCEPT !.dl[d].cbError = @ + 1]

\* Download.handleExit: the callbacks
Callbacks(w, d, err) ==
    IF err = ""
    THEN [w EXCEPT !.dl[d].cbSuccess = @ + 1]
    ELSE [w EXCEPT !.dl[d].cbError = @ + 1]

\* Download.handleExit: free the slot and unlock the next download, then the callbacks
ExitFreeSlot(w, d, err) ==
    LET w1 == [w EXCEPT !.dslot = @ + 1] IN
    { IF od = 0
      THEN Callbacks(w1, d, err)
      ELSE LET w2 == WakeUp([w1 EXCEPT !.dl[od].state = "waited_slot", !.dslot = @ - 1],
                            od, "sel_slot", "gate_peer")
           IN IF w2.mutex = "stuck" THEN w2 ELSE Callbacks(w2, d, err)
      : od \in FirstMatch(SlotWaiters(w1)) }

\* Download.handleExit
DownloadHandleExit(w, d, err) ==
    LET n == w.dl[d].peer
        w1 == [w EXCEPT !.dl[d].exits = @ + 1,
                        !.transfers = @ \ {Dl(d)},
                        !.active[n] = 0]
    IN UNION { IF od = 0
               THEN ExitFreeSlot(w1, d, err)
               ELSE LET w2 == WakeUp([w1 EXCEPT !.dl[od].state = "waited_activedl",
                                                !.active[n] = d,
                                                !.woken = @ \cup {od}],
                                     od, "sel_activedl", "gate_slot")
                    IN IF w2.mutex = "stuck" THEN {w2} ELSE ExitFreeSlot(w2, d, err)
               : od \in FirstMatch(ActiveDlWaiters(w1, d)) }

\* Download.do: the inner function returned an error, handleExit runs under the mutex
DownloadExit(d) ==
    /\ mutex = "free"
    /\ dl[d].pc = "exiting"
    /\ \E w \in DownloadHandleExit(World, d, dl[d].err) :
          Apply(IF w.mutex = "stuck" THEN w
                ELSE [w EXCEPT !.dl[d].pc = "done", !.dl[d].err = ""])


\* ------------------------------------------------------------- upload
\* a check that finds a slot whatever the counter is
UploadSlotNeverFull(avail) == FALSE

\* newUpload: the check of the available slots
UploadSlotFull(avail) == avail <= 0

\* uint64 and int64, scaled to UintBits bits
UintBits == 4
Uint(n) == n % (2 ^ UintBits)
MaxInt == 2 ^ (UintBits - 1) - 1

\* the size of the file of the share that the requests name
FileSize == 2

\* what newUpload writes to the peer: the refusals (ADC: a warning status with the code
\* slots-full or file-not-available; NMDC: MaxedOut or Error) and SendFile with u.length,
\* which nothing but this message and the log reads
Answer(type, length) == [type |-> type, length |-> length]
NoSlotsAnswer ==
    IF protoIsAdc THEN Answer("AdcStatus warning SlotsFull", 0) ELSE Answer("MaxedOut", 0)
NotAvailableAnswer ==
    IF protoIsAdc THEN Answer("AdcStatus warning FileNotAvailable", 0)
                  ELSE Answer("Error File Not Available", 0)

\* newUpload, the function that sets up the upload of a file by its TTH: the error it
\* returns ("" for nil) and u.length. m.ok tells whether the file is in the share; the
\* file is taken to open; Seek fails on a negative offset, int64(u.start) < 0, only.
uploadSetup(w, m) ==
    LET maxLength == Uint(FileSize - m.start) IN
    IF UploadSlotFull(w.uslot) THEN [err |-> "no slots", length |-> 0]
    ELSE IF ~m.ok THEN [err |-> "file does not exists", length |-> 0]
    ELSE IF m.start > MaxInt THEN [err |-> "seek", length |-> 0]
    ELSE IF m.length # -1
         THEN IF Uint(m.length) > maxLength
              THEN [err |-> "length too big", length |-> 0]
              ELSE [err |-> "", length |-> Uint(m.length)]
         ELSE [err |-> "", length |-> maxLength]

\* newUpload: a refused request is answered and changes nothing else
newUpload(w, c, m) ==
    LET s == uploadSetup(w, m) IN
    IF s.err = "no slots"
    THEN [w EXCEPT !.out = <<NoSlotsAnswer>>]
    ELSE IF s.err # ""
    THEN [w EXCEPT !.out = <<NotAvailableAnswer>>]
    ELSE LET u == Cardinality({x \in UpIds : w.up[x].pconn # 0}) + 1 IN
         [w EXCEPT !.out = <<Answer("SendFile", s.length)>>,
                   !.up[u] = [pconn |-> c, state |-> "processing", exits |-> 0],
                   !.transfers = @ \cup {Up(u)},
                   !.uslot = @ - 1,
                   !.conn[c].state = "delegated_upload",
                   !.conn[c].transfer = Up(u)]

\* an exit handler that keeps the slot
UploadHandleExitKeepsSlot(w, u, err) ==
    [w EXCEPT !.up[u].exits = @ + 1,
              !.transfers = @ \ {Up(u)}]

\* upload.handleExit
UploadHandleExit(w, u, err) ==
    [w EXCEPT !.up[u].exits = @ + 1,
              !.transfers = @ \ {Up(u)},
              !.uslot = @ + 1]

\* ------------------------------------------------------------- connPeer
\* newConnPeer: an accepted (isActive) or a dialed connection; token is the adcToken
\* of the hub's connect-to-me that made the client dial
newConnPeer(isActive, token) ==
    /\ mutex = "free"
    /\ conn' = [conn EXCEPT ![NextConn] =
                   [NoConn EXCEPT !.run = "loop", !.isActive = isActive, !.adcToken = token,
                                  !.state = IF isActive THEN "pre_connected"
                                                        ELSE "pre_connecting"]]
    /\ connPeers' = connPeers \cup {NextConn}
    /\ UNCHANGED <<remote, protoIsAdc, mutex, transfers, activeDownloadsByPeer, downloadSlotAvail,
                   uploadSlotAvail, connPeersByKey, dl, up, dlWoken>>

\* messages of a peer; the fields a type does not carry hold their zero value
Msg(type, nick, dir, bet, token, ok) ==
    [type |-> type, nick |-> nick, dir |-> dir, bet |-> bet, token |-> token, ok |-> ok,
     start |-> 0, length |-> 0, compressed |-> FALSE, size |-> 0, tth |-> TRUE]
Plain(type) == Msg(type, NoNick, "", 0, 0, TRUE)
\* msgNmdcSendFile / msgAdcCSendFile: ok tells whether Query is the query of the request
SendFile(ok, start, length, compressed) ==
    [Msg("SendFile", NoNick, "", 0, 0, ok) EXCEPT !.start = start, !.length = length,
                                                  !.compressed = compressed]
\* msgNmdcGetFile / msgAdcCGetFile of a file by its TTH: ok tells whether the share has
\* a file of that TTH
GetFile(ok, start, length) ==
    [Msg("GetFile", NoNick, "", 0, 0, ok) EXCEPT !.start = start, !.length = length]
\* msgBinary: size is len(Content) > 0; tth tells whether the content written so far
\* followed by this chunk hashes to conf.TTH
Binary(size, tth) == [Plain("Binary") EXCEPT !.size = size, !.tth = tth]
\* the length of the file the peers of the scheduling specifications serve
PlainLen == 1

\* "?" is a nick (a client id) of no peer of the hub
UnknownNick == "?"
\* a CINF field that is not provided
NotProvided == -1

AdcMsgs ==
    {Msg("AdcStatus", NoNick, "", 0, 0, ok) : ok \in BOOLEAN}
    \cup {Plain("AdcSupports")}
    \cup {Msg("AdcInfos", n, "", 0, t, ok) :
            n \in Nicks \cup {UnknownNick}, t \in {NotProvided} \cup (0..MaxDl), ok \in BOOLEAN}
    \cup {GetFile(ok, 0, -1) : ok \in BOOLEAN}
    \cup {SendFile(ok, 0, PlainLen, FALSE) : ok \in BOOLEAN}
    \cup {Binary(n, TRUE) : n \in 1..(PlainLen + 1)}

NmdcMsgs ==
    {Msg("MyNick", n, "", 0, 0, TRUE) : n \in Nicks \cup {UnknownNick}}
    \cup {Plain("Lock"), Plain("Supports"), Plain("Key"), Plain("MaxedOut"), Plain("Error")}
    \cup {Msg("Direction", NoNick, d, b, 0, TRUE) : d \in {"Upload", "Download"}, b \in 1..MaxBet}
    \cup {GetFile(ok, 0, -1) : ok \in BOOLEAN}
    \cup {SendFile(ok, 0, PlainLen, FALSE) : ok \in BOOLEAN}
    \cup {Binary(n, TRUE) : n \in 1..(PlainLen + 1)}

\* the replies of a peer to a request of a file of up to MaxLen bytes: any SendFile and
\* any content
MaxStart == 1
MaxLen == 2
ReplyMsgs ==
    {SendFile(ok, s, l, z) : ok \in BOOLEAN, s \in 0..MaxStart, l \in 0..MaxLen, z \in BOOLEAN}
    \cup {Binary(n, t) : n \in 1..(MaxLen + 1), t \in BOOLEAN}

\* the requests of a peer for the file of the share or for a file that is not there: a
\* start within the file, at its end, beyond it, or beyond the range of int64, and any
\* length up to one byte more than the file has
RequestMsgs ==
    {GetFile(ok, s, l) : ok \in BOOLEAN, s \in 0..(FileSize + 1) \cup {MaxInt + 1},
                         l \in -1..(FileSize + 1)}

Fail(w, e) == [w EXCEPT !.err = e]

\* the error of a handshake that resolves to a pair already in the index
DuplicateError == "a connection with this peer and direction already exists"

\* Client.downloadByAdcToken
downloadByAdcToken(w, token) ==
    FirstMatch({d \in DlIds : /\ Dl(d) \in w.transfers
                              /\ w.dl[d].adcToken = token
                              /\ w.dl[d].state = "waiting_peer"})

\* Client.downloadPendingByPeer
downloadPendingByPeer(w, n) ==
    LET d == w.active[n] IN
    IF d # 0 /\ w.dl[d].terminateRequested = FALSE /\ w.dl[d].state = "waiting_peer"
    THEN d ELSE 0

\* a handshake that does not look the pair up
KeyNeverTaken(w, key) == FALSE

\* connPeer.handleMessage: is the resolved (nick, direction) already in the index
KeyTaken(w, key) == w.byKey[key] # 0

\* connPeer.handleMessage: the connection is handed to the download, which is woken
Delegate(w, c, d) ==
    WakeUp([w EXCEPT !.conn[c].protoState = "wait_download",
                     !.conn[c].state = "delegated_download",
                     !.conn[c].transfer = Dl(d),
                     !.dl[d].pconn = c,
                     !.dl[d].state = "waited_peer"],
           d, "sel_peer", "write")


\* connPeer.handleMessage, case *msgAdcCStatus
handleAdcStatus(w, c, m) ==
    IF ~m.ok THEN {Fail(w, "error status")} ELSE {w}

\* a CSUP handler that answers with CINF on both sides
handleAdcSupportsInfosOnly(w, c, m) ==
    IF w.conn[c].protoState # "connected"
    THEN {Fail(w, "invalid state")}
    ELSE {[w EXCEPT !.conn[c].protoState = "supports",
                    !.conn[c].wrote = Append(@, "AdcInfos")]}

\* connPeer.handleMessage, case *msgAdcCSupports: the accepting side answers with its
\* CSUP, the dialing side with its CINF
handleAdcSupports(w, c, m) ==
    IF w.conn[c].protoState # "connected"
    THEN {Fail(w, "invalid state")}
    ELSE {[w EXCEPT !.conn[c].protoState = "supports",
                    !.conn[c].wrote = Append(@, IF w.conn[c].isActive THEN "AdcSupports"
                                                ELSE "AdcInfos")]}

\* connPeer.handleMessage, case *msgAdcCInfos.  m.ok is the outcome of the fingerprint
\* validation of the dialing side.
handleAdcInfos(w, c, m) ==
    IF w.conn[c].protoState # "supports"
    THEN {Fail(w, "invalid state")}
    ELSE
    LET w1 == [w EXCEPT !.conn[c].protoState = "infos"] IN
    IF m.nick = UnknownNick
    THEN {Fail(w1, "unknown client id")}
    ELSE
    LET w2 == [w1 EXCEPT !.conn[c].peer = m.nick] IN
    IF w.conn[c].isActive /\ m.token = NotProvided
    THEN {Fail(w2, "token not provided")}
    ELSE IF ~w.conn[c].isActive /\ ~m.ok
    THEN {Fail(w2, "unable to validate peer fingerprint")}
    ELSE
    LET w3 == IF w.conn[c].isActive
              THEN [w2 EXCEPT !.conn[c].adcToken = m.token,
                              !.conn[c].wrote = Append(@, "AdcInfos")]
              ELSE w2
    IN { IF d # 0
         THEN IF KeyTaken(w3, <<m.nick, "download">>)
              THEN Fail(w3, DuplicateError)
              ELSE Delegate([w3 EXCEPT !.byKey[<<m.nick, "download">>] = c,
                                       !.conn[c].direction = "download"], c, d)
         ELSE IF KeyTaken(w3, <<m.nick, "upload">>)
              THEN Fail(w3, DuplicateError)
              ELSE [w3 EXCEPT !.byKey[<<m.nick, "upload">>] = c,
                              !.conn[c].direction = "upload",
                              !.conn[c].protoState = "wait_upload"]
         : d \in downloadByAdcToken(w3, w3.conn[c].adcToken) }

\* connPeer.handleMessage, case *msgAdcCGetFile and case *msgNmdcGetFile
handleGetFile(w, c, m) ==
    IF w.conn[c].protoState # "wait_upload"
    THEN {Fail(w, "invalid state")}
    ELSE {newUpload(w, c, m)}

\* connPeer.handleMessage, case *msgNmdcMyNick
handleMyNick(w, c, m) ==
    IF w.conn[c].protoState # "connected"
    THEN {Fail(w, "invalid state")}
    ELSE IF m.nick = UnknownNick
         THEN {Fail([w EXCEPT !.conn[c].protoState = "mynick", !.conn[c].peer = NoNick],
                    "peer not connected to hub")}
         ELSE {[w EXCEPT !.conn[c].protoState = "mynick", !.conn[c].peer = m.nick]}

\* connPeer.handleMessage, case *msgNmdcLock: the bet is random, the announced
\* direction is Download when a download for the peer waits for a connection
handleLock(w, c, m) ==
    IF w.conn[c].protoState # "mynick"
    THEN {Fail(w, "invalid state")}
    ELSE {[w EXCEPT !.conn[c].protoState = "lock",
                    !.conn[c].wrote = (IF w.conn[c].isActive THEN @ \o <<"MyNick", "Lock">>
                                       ELSE @) \o <<"Supports", "Direction", "Key">>,
                    !.conn[c].localBet = bet,
                    !.conn[c].localDirection =
                        IF downloadPendingByPeer(w, w.conn[c].peer) # 0
                        THEN "download" ELSE "upload"]
          : bet \in 1..MaxBet}

\* a Supports handler that does not look at the substate
handleSupportsAnywhere(w, c, m) ==
    {[w EXCEPT !.conn[c].protoState = "supports"]}

\* connPeer.handleMessage, case *msgNmdcSupports
handleSupports(w, c, m) ==
    IF w.conn[c].protoState # "lock"
    THEN {Fail(w, "invalid state")}
    ELSE {[w EXCEPT !.conn[c].protoState = "supports"]}

\* strings.ToLower on the direction names
ToLower(s) ==
    CASE s = "Download" -> "download"
      [] s = "Upload" -> "upload"
      [] OTHER -> s

\* connPeer.handleMessage, case *msgNmdcDirection
handleDirection(w, c, m) ==
    IF w.conn[c].protoState # "supports"
    THEN {Fail(w, "invalid state")}
    ELSE {[w EXCEPT !.conn[c].protoState = "direction",
                    !.conn[c].remoteDirection = ToLower(m.dir),
                    !.conn[c].remoteBet = m.bet]}

\* an election that looks at the bets only
ElectDirectionByBet(localDirection, remoteDirection, localBet, remoteBet) ==
    IF localBet > remoteBet THEN [direction |-> "download", err |-> ""]
    ELSE IF localBet < remoteBet THEN [direction |-> "upload", err |-> ""]
    ELSE [direction |-> "", err |-> "equal random numbers"]

\* an election where the local side wins a tie
ElectDirectionTieWins(localDirection, remoteDirection, localBet, remoteBet) ==
    IF localDirection = "upload" /\ remoteDirection = "download"
    THEN [direction |-> "upload", err |-> ""]
    ELSE IF localDirection = "download" /\ remoteDirection = "upload"
    THEN [direction |-> "download", err |-> ""]
    ELSE IF localDirection = "download" /\ remoteDirection = "download"
    THEN IF localBet >= remoteBet THEN [direction |-> "download", err |-> ""]
         ELSE [direction |-> "upload", err |-> ""]
    ELSE [direction |-> "", err |-> "double upload request"]

\* an election where two uploaders settle on an upload
ElectDirectionUploadsAgree(localDirection, remoteDirection, localBet, remoteBet) ==
    IF localDirection = "upload"
    THEN [direction |-> "upload", err |-> ""]
    ELSE IF localDirection = "download" /\ remoteDirection = "upload"
    THEN [direction |-> "download", err |-> ""]
    ELSE IF localBet > remoteBet THEN [direction |-> "download", err |-> ""]
         ELSE IF localBet < remoteBet THEN [direction |-> "upload", err |-> ""]
         ELSE [direction |-> "", err |-> "equal random numbers"]

\* an election where a side that asked for a download always gets it
ElectDirectionKeepsDownload(localDirection, remoteDirection, localBet, remoteBet) ==
    IF localDirection = "upload" /\ remoteDirection = "download"
    THEN [direction |-> "upload", err |-> ""]
    ELSE IF localDirection = "download"
    THEN [direction |-> "download", err |-> ""]
    ELSE [direction |-> "", err |-> "double upload request"]

\* connPeer.handleMessage, case *msgNmdcKey: the direction election; "" with the error
ElectDirection(localDirection, remoteDirection, localBet, remoteBet) ==
    IF localDirection = "upload" /\ remoteDirection = "download"
    THEN [direction |-> "upload", err |-> ""]
    ELSE IF localDirection = "download" /\ remoteDirection = "upload"
    THEN [direction |-> "download", err |-> ""]
    ELSE IF localDirection = "download" /\ remoteDirection = "download"
    THEN IF localBet > remoteBet THEN [direction |-> "download", err |-> ""]
         ELSE IF localBet < remoteBet THEN [direction |-> "upload", err |-> ""]
         ELSE [direction |-> "", err |-> "equal random numbers"]
    ELSE [direction |-> "", err |-> "double upload request"]

\* connPeer.handleMessage, case *msgNmdcKey
handleKey(w, c, m) ==
    IF w.conn[c].protoState # "direction"
    THEN {Fail(w, "invalid state")}
    ELSE
    LET w1 == [w EXCEPT !.conn[c].protoState = "key"]
        p == w.conn[c]
        e == ElectDirection(p.localDirection, p.remoteDirection, p.localBet, p.remoteBet)
        key == <<p.peer, e.direction>>
    IN
    IF e.err # ""
    THEN {Fail(w1, e.err)}
    ELSE IF KeyTaken(w1, key)
    THEN {Fail(w1, DuplicateError)}
    ELSE
    LET w2 == [w1 EXCEPT !.byKey[key] = c, !.conn[c].direction = e.direction]
        d == downloadPendingByPeer(w2, p.peer)
    IN
    IF e.direction = "upload"
    THEN {[w2 EXCEPT !.conn[c].protoState = "wait_upload"]}
    ELSE IF d # 0
         THEN {Delegate(w2, c, d)}
         ELSE {Fail(w2, "download connection but cannot find download")}

\* connPeer.handleMessage
handleMessage(w, c, m) ==
    CASE m.type = "AdcStatus" -> handleAdcStatus(w, c, m)
      [] m.type = "AdcSupports" -> handleAdcSupports(w, c, m)
      [] m.type = "AdcInfos" -> handleAdcInfos(w, c, m)
      [] m.type = "GetFile" -> handleGetFile(w, c, m)
      [] m.type = "MyNick" -> handleMyNick(w, c, m)
      [] m.type = "Lock" -> handleLock(w, c, m)
      [] m.type = "Supports" -> handleSupports(w, c, m)
      [] m.type = "Direction" -> handleDirection(w, c, m)
      [] m.type = "Key" -> handleKey(w, c, m)
      [] OTHER -> {Fail(w, "unhandled")}

\* a handleSendFile that does not compare the start of the reply
handleSendFileAnyStart(w, d, m) ==
    LET conf == w.dl[d].conf
        length == IF conf.length = -1 THEN m.length ELSE conf.length
        w1 == [w EXCEPT !.dl[d].length = length]
    IN
    IF ~m.ok THEN Fail(w, "wrong query")
    ELSE IF m.compressed /\ conf.noZlib THEN Fail(w, "compression is disabled")
    ELSE IF conf.length # -1 /\ length # m.length THEN Fail(w1, "wrong length")
    ELSE IF length = 0 THEN Fail(w1, "null file")
    ELSE [w1 EXCEPT !.conn[w.dl[d].pconn].readBinary = TRUE,
                    !.dl[d].writer = "open",
                    !.dl[d].tmp = IF conf.savePath THEN TRUE ELSE @]

\* Download.handleSendFile. d.length is assigned before it is compared with the length
\* of the reply. os.Create is taken to succeed.
handleSendFile(w, d, m) ==
    LET conf == w.dl[d].conf
        length == IF conf.length = -1 THEN m.length ELSE conf.length
        w1 == [w EXCEPT !.dl[d].length = length]
    IN
    IF ~m.ok THEN Fail(w, "wrong query")
    ELSE IF m.start # conf.start THEN Fail(w, "wrong start")
    ELSE IF m.compressed /\ conf.noZlib THEN Fail(w, "compression is disabled")
    ELSE IF conf.length # -1 /\ length # m.length THEN Fail(w1, "wrong length")
    ELSE IF length = 0 THEN Fail(w1, "null file")
    ELSE [w1 EXCEPT !.conn[w.dl[d].pconn].readBinary = TRUE,
                    !.dl[d].writer = "open",
                    !.dl[d].tmp = IF conf.savePath THEN TRUE ELSE @]

\* a finishDownload that compares no hash
finishDownloadUnchecked(w, d) ==
    LET conf == w.dl[d].conf IN
    Fail([w EXCEPT !.conn[w.dl[d].pconn].readBinary = FALSE,
                   !.dl[d].writer = "closed",
                   !.dl[d].tmp = IF conf.savePath THEN FALSE ELSE @,
                   !.dl[d].final = IF conf.savePath THEN TRUE ELSE @], "terminated")

\* Download.handleDownload, case *msgBinary, once d.offset == d.length: the checks of
\* the content and the move to the final path. The bzip2 decoding and the file
\* operations are taken to succeed.
finishDownload(w, d) ==
    LET conf == w.dl[d].conf
        w1 == [w EXCEPT !.conn[w.dl[d].pconn].readBinary = FALSE,
                        !.dl[d].writer = "closed"]
        moved == [w1 EXCEPT !.dl[d].tmp = IF conf.savePath THEN FALSE ELSE @,
                            !.dl[d].final = IF conf.savePath THEN TRUE ELSE @]
    IN
    IF conf.isFilelist THEN Fail(moved, "terminated")
    ELSE IF ~conf.skipValidation /\ conf.start = 0 /\ conf.length <= 0 /\ ~w.dl[d].tthOk
         THEN Fail(w1, "validation failed")
    ELSE Fail(moved, "terminated")

\* a handleDownload that writes every chunk it is given
handleDownloadNoLimit(w, d, m) ==
    CASE m.type \in {"AdcStatus", "MaxedOut", "Error"} -> Fail(w, "error")
      [] m.type = "SendFile" -> handleSendFile(w, d, m)
      [] m.type = "Binary" ->
            LET newLength == w.dl[d].offset + m.size
                w1 == [w EXCEPT !.dl[d].offset = newLength, !.dl[d].tthOk = m.tth]
            IN IF newLength = w.dl[d].length THEN finishDownload(w1, d) ELSE w1
      [] OTHER -> Fail(w, "unhandled")

\* Download.handleDownload: errorTerminated is the end of a complete transfer
handleDownload(w, d, m) ==
    CASE m.type \in {"AdcStatus", "MaxedOut", "Error"} -> Fail(w, "error")
      [] m.type = "SendFile" -> handleSendFile(w, d, m)
      [] m.type = "Binary" ->
            LET newLength == w.dl[d].offset + m.size IN
            IF newLength > w.dl[d].length THEN Fail(w, "binary content too long")
            ELSE LET w1 == [w EXCEPT !.dl[d].offset = newLength,
                                     !.dl[d].tthOk = m.tth] IN
                 IF newLength = w.dl[d].length THEN finishDownload(w1, d) ELSE w1
      [] OTHER -> Fail(w, "unhandled")


\* connPeer.do: the function the loop runs in returned err; the exit handler follows
Return(w, c, e) == [w EXCEPT !.conn[c].run = "exiting", !.conn[c].err = e]

\* connPeer.do, case "pre_connecting" and case "pre_connected"
ConnStart(c) ==
    /\ mutex = "free"
    /\ conn[c].run = "loop"
    /\ conn[c].state \in {"pre_connecting", "pre_connected"}
    /\ conn' = IF conn[c].state = "pre_connecting"
               THEN [conn EXCEPT ![c].state = "connecting"]
               ELSE [conn EXCEPT ![c].state = "connected", ![c].protoState = "connected"]
    /\ UNCHANGED <<remote, protoIsAdc, mutex, transfers, activeDownloadsByPeer, downloadSlotAvail,
                   uploadSlotAvail, connPeers, connPeersByKey, dl, up, dlWoken>>

\* connPeer.do, safeState "connecting": the dial succeeded and the dialing side is the
\* first to talk (CSUP, or MyNick and Lock), then case "connecting" of the loop
ConnDialed(c) ==
    /\ mutex = "free"
    /\ conn[c].run = "loop"
    /\ conn[c].state = "connecting"
    /\ conn' = [conn EXCEPT ![c].state = "connected", ![c].protoState = "connected",
                            ![c].wrote = IF protoIsAdc THEN <<"AdcSupports">>
                                         ELSE <<"MyNick", "Lock">>]
    /\ UNCHANGED <<remote, protoIsAdc, mutex, transfers, activeDownloadsByPeer, downloadSlotAvail,
                   uploadSlotAvail, connPeers, connPeersByKey, dl, up, dlWoken>>

\* connPeer.do: ce.Error of the dial, or the error of conn.Read / of handleUpload
ConnFail(c) ==
    /\ Alive
    /\ conn[c].run = "loop"
    /\ conn[c].state \in {"connecting", "connected", "delegated_download",
                          "delegated_upload"}
    /\ conn' = [conn EXCEPT ![c].run = "exiting", ![c].err = "transport"]
    /\ UNCHANGED <<remote, protoIsAdc, mutex, transfers, activeDownloadsByPeer, downloadSlotAvail,
                   uploadSlotAvail, connPeers, connPeersByKey, dl, up, dlWoken>>

\* connPeer.do, case "delegated_download" of the loop
RecvDelegatedDownload(w, c, m) ==
    LET d == w.conn[c].transfer[2]
        r == handleDownload(w, d, m)
    IN IF r.err = "terminated"
       THEN DownloadHandleExit([r EXCEPT !.err = "",
                                         !.conn[c].transfer = NoTransfer,
                                         !.conn[c].state = "connected",
                                         !.dl[d].state = "success"], d, "")
       ELSE {r}

\* protocol.Read: in binary mode the reader returns the bytes received as msgBinary, in
\* line mode it decodes messages
Readable(c, m) == conn[c].readBinary <=> m.type = "Binary"

\* connPeer.do, case "connected" and case "delegated_download": a message was read and
\* is handled in the next iteration
ConnRecv(c, m) ==
    /\ mutex = "free"
    /\ conn[c].run = "loop"
    /\ conn[c].closed = FALSE
    /\ conn[c].state \in {"connected", "delegated_download"}
    /\ m \in (IF protoIsAdc THEN AdcMsgs ELSE NmdcMsgs) \cup ReplyMsgs \cup RequestMsgs
    /\ Readable(c, m)
    /\ \E w \in (IF conn[c].state = "connected" THEN handleMessage(World, c, m)
                                                ELSE RecvDelegatedDownload(World, c, m)) :
          Apply(IF w.err # "" /\ w.mutex # "stuck" THEN Return(w, c, w.err) ELSE w)

\* an end of the upload that leaves the connection to the upload
UploadDoneKeepsConn(c) ==
    /\ mutex = "free"
    /\ conn[c].run = "loop"
    /\ conn[c].state = "delegated_upload"
    /\ LET u == conn[c].transfer[2] IN
       Apply(UploadHandleExit([World EXCEPT !.up[u].state = "success"], u, ""))

\* connPeer.do, case "delegated_upload" of the loop: handleUpload returned nil
UploadDone(c) ==
    /\ mutex = "free"
    /\ conn[c].run = "loop"
    /\ conn[c].state = "delegated_upload"
    /\ LET u == conn[c].transfer[2] IN
       Apply(UploadHandleExit([World EXCEPT !.conn[c].transfer = NoTransfer,
                                            !.conn[c].state = "connected",
                                            !.up[u].state = "success"], u, ""))

\* connPeer.do: the exit handler: the transfer abruptly interrupted
ExitTransfer(w, c) ==
    CASE w.conn[c].state = "delegated_upload" ->
            {UploadHandleExit(w, w.conn[c].transfer[2], w.conn[c].err)}
      [] w.conn[c].state = "delegated_download" ->
            DownloadHandleExit(w, w.conn[c].transfer[2], w.conn[c].err)
      [] OTHER -> {w}

\* a connection whose goroutine has ended: the socket is closed, the client holds no
\* reference to the object and nothing reads its fields again
EndedConn == [NoConn EXCEPT !.run = "ended", !.closed = TRUE]

\* an exit handler that leaves the entry of the index
ExitRemoveKeepsKey(w, c) ==
    [w EXCEPT !.conn[c] = EndedConn,
              !.connPeers = @ \ {c}]

\* connPeer.do: the exit handler: the connection leaves connPeers and the index
ExitRemove(w, c) ==
    LET p == w.conn[c]
        w1 == [w EXCEPT !.conn[c] = EndedConn,
                        !.connPeers = @ \ {c}]
    IN IF p.peer # NoNick /\ p.direction # ""
       THEN [w1 EXCEPT !.byKey[<<p.peer, p.direction>>] = 0]
       ELSE w1

\* connPeer.do: the exit handler
ConnExit(c) ==
    /\ mutex = "free"
    /\ conn[c].run = "exiting"
    /\ \E w \in ExitTransfer(World, c) :
          Apply(IF w.mutex = "stuck" THEN w ELSE ExitRemove(w, c))

\* connPeer.terminate: the states the switch handles; in any other state it panics
TerminateHandles(state) ==
    state \in {"terminated", "pre_connecting", "pre_connected", "connecting", "connected"}

\* connPeer.terminate, called with the mutex held (upload.terminate calls it for the
\* connection of an upload in progress): the dial is woken or the socket is closed
ConnTerminate(c) ==
    /\ mutex = "free"
    /\ c \in connPeers
    /\ IF ~TerminateHandles(conn[c].state)
       THEN /\ mutex' = "panic"
            /\ conn' = conn
       ELSE /\ mutex' = mutex
            /\ conn' = IF conn[c].state = "terminated" THEN conn
                       ELSE [conn EXCEPT ![c].state = "terminated",
                                         ![c].closed = IF conn[c].state = "connected"
                                                       THEN TRUE ELSE @]
    /\ UNCHANGED <<remote, protoIsAdc, transfers, activeDownloadsByPeer, downloadSlotAvail,
                   uploadSlotAvail, connPeers, connPeersByKey, dl, up, dlWoken>>

\* connPeer.do: the goroutine finds the state "terminated" at the top of the loop, is
\* woken in the dial, or its Read fails on the terminated socket: errorTerminated
ConnTerminated(c) ==
    /\ mutex = "free"
    /\ conn[c].run = "loop"
    /\ conn[c].state = "terminated"
    /\ conn' = [conn EXCEPT ![c].run = "exiting", ![c].err = "terminated"]
    /\ UNCHANGED <<remote, protoIsAdc, mutex, transfers, activeDownloadsByPeer, downloadSlotAvail,
                   uploadSlotAvail, connPeers, connPeersByKey, dl, up, dlWoken>>

\* ------------------------------------------------------------- specification
\* calls of Download.Close so far
RECURSIVE CloseCount(_)
CloseCount(S) ==
    IF S = {} THEN 0
    ELSE LET d == CHOOSE x \in S : TRUE IN dl[d].closeCalls + CloseCount(S \ {d})

\* The embedder creates up to maxDl downloads from the peers of nicks; the goroutine of
\* each download runs through the gates, times out waiting for its peer, and exits.
QueueActions(nicks, maxDl) ==
    \/ \E n \in nicks : NextDl <= maxDl /\ DownloadFile(n, PlainConf)
    \/ \E d \in DlIds : GateActiveDl(d)
    \/ \E d \in DlIds : GateSlot(d)
    \/ \E d \in DlIds : GatePeer(d)
    \/ \E d \in DlIds : PeerWaitTimeout(d)
    \/ \E d \in DlIds : DownloadExit(d)

\* The embedder calls Close up to maxClose times; a waiting download takes the request.
CloseActions(maxClose) ==
    \/ \E d \in DlIds : CloseCount(DlIds) < maxClose /\ Close(d)
    \/ \E d \in DlIds : TakeTerminate(d)

\* the messages of a peer that follows the handshake under a nick of nicks, answers a
\* request of ours with SendFile, binary content or an error, and requests files (up to
\* maxUp) once the connection waits for uploads
PeerMsgs(c, maxUp, nicks) ==
    LET p == conn[c] IN
    IF p.state = "delegated_download"
    THEN {m \in AdcMsgs \cup NmdcMsgs :
            m.type \in {"SendFile", "Binary", "MaxedOut", "Error"}}
    ELSE {m \in AdcMsgs \cup NmdcMsgs :
            /\ m.nick \in nicks \cup {NoNick}
            /\ \/ p.protoState = "connected" /\ m.type \in {"AdcSupports", "MyNick"}
               \/ p.protoState = "supports" /\ m.type \in {"AdcInfos", "Direction"}
               \/ p.protoState = "mynick" /\ m.type = "Lock"
               \/ p.protoState = "lock" /\ m.type = "Supports"
               \/ p.protoState = "direction" /\ m.type = "Key"
               \/ p.protoState = "wait_upload" /\ m.type = "GetFile" /\ NextUp <= maxUp}

\* Up to maxConn peer connections are accepted or dialed, their peers send the messages
\* of PeerMsgs; the goroutine of each connection runs to its exit handler.
ConnActions(maxConn, maxUp, nicks) ==
    \/ \E a \in BOOLEAN, t \in 0..MaxDl :
          /\ NextConn <= maxConn
          /\ t # 0 => protoIsAdc /\ ~a
          /\ newConnPeer(a, t)
    \/ \E c \in ConnIds : ConnStart(c)
    \/ \E c \in ConnIds : ConnDialed(c)
    \/ \E c \in ConnIds : ConnFail(c)
    \/ \E c \in ConnIds : \E m \in PeerMsgs(c, maxUp, nicks) : ConnRecv(c, m)
    \/ \E c \in ConnIds : ConnExit(c)

\* A download that got its connection writes its request; an upload is streamed to the end.
RequestActions ==
    \E d \in DlIds : WriteGetFile(d)

UploadActions ==
    \E c \in ConnIds : UploadDone(c)

\* terminate() is called on a connection; its goroutine takes the request.
TerminateActions ==
    \/ \E c \in ConnIds : ConnTerminate(c)
    \/ \E c \in ConnIds : ConnTerminated(c)

\* bounds of the three environments
PairDl == 2
OneDl == 1
OneConn == 1
OneUp == 1
OneNick == {"a"}

\* the nicks a connecting peer may give: those of the hub's peers, or one of a stranger
AnyNick == Nicks \cup {UnknownNick}
OneOrUnknown == OneNick \cup {UnknownNick}

\* Two downloads, Close, one peer connection, an upload.
Next ==
    \/ QueueActions(Nicks, PairDl)
    \/ CloseActions(MaxClose)
    \/ ConnActions(OneConn, OneUp, AnyNick)
    \/ RequestActions
    \/ UploadActions

Spec == Init /\ [][Next]_vars

\* The queue of downloads alone: no peer ever connects.
NextQueue ==
    \/ QueueActions(Nicks, MaxDl)
    \/ CloseActions(MaxClose)

SpecQueue == Init /\ [][NextQueue]_vars

\* Two connections of one peer, their handshakes and uploads, and one download.
NextPeers ==
    \/ QueueActions(OneNick, OneDl)
    \/ ConnActions(MaxConn, MaxUp, OneOrUnknown)
    \/ RequestActions
    \/ UploadActions

SpecPeers == Init /\ [][NextPeers]_vars

\* Two peers that connect to fetch files: no download.
NextUploads ==
    \/ ConnActions(MaxConn, MaxUp, AnyNick)
    \/ UploadActions

SpecUploads == Init /\ [][NextUploads]_vars

\* Three downloads of one peer, one Close, and one connection of that peer that serves
\* downloads only.
OneClose == 1
NoUp == 0

NextReuse ==
    \/ QueueActions(OneNick, MaxDl)
    \/ CloseActions(OneClose)
    \/ ConnActions(OneConn, NoUp, OneNick)
    \/ RequestActions

SpecReuse == Init /\ [][NextReuse]_vars

\* One download and one connection of its peer, which also fetches a file; terminate()
\* is called on the connection at any moment.
NextTerminate ==
    \/ QueueActions(OneNick, OneDl)
    \/ ConnActions(OneConn, OneUp, OneOrUnknown)
    \/ RequestActions
    \/ UploadActions
    \/ TerminateActions

SpecTerminate == Init /\ [][NextTerminate]_vars

\* ------------------------------------------------------------- fair runs
\* The environment of a transfer that nothing disturbs: the peer answers every
\* connection request before the 10 s timer, follows the handshake as the uploader,
\* answers GetFile with SendFile and the whole content, and the transport never fails.

\* one goroutine of Download.do: its steps up to the request
DlStep(d) ==
    \/ GateActiveDl(d)
    \/ GateSlot(d)
    \/ GatePeer(d)
    \/ WriteGetFile(d)

\* the downloads that wait for the connection they requested through the hub
Awaited == {d \in DlIds : dl[d].pc = "sel_peer"}

\* the hub's connect-to-me is answered: the peer connects (isActive) or is dialed with
\* the token of the request, once per request
PeerConnects(maxConn) ==
    \E d \in Awaited, a \in BOOLEAN :
        /\ NextConn <= maxConn
        /\ \A c \in connPeers : conn[c].direction # ""
        /\ newConnPeer(a, IF protoIsAdc /\ ~a THEN dl[d].adcToken ELSE 0)

\* what the peer of an awaited download sends on connection c (on a connection dialed
\* with a token, the peer of the download that holds the token)
AnswerMsgs(c) ==
    LET p == conn[c] IN
    IF p.state = "delegated_download"
    THEN LET d == p.transfer[2] IN
         IF dl[d].pc # "done" THEN {}
         ELSE IF dl[d].writer = "" THEN {SendFile(TRUE, 0, PlainLen, FALSE)}
         ELSE {Binary(PlainLen, TRUE)}
    ELSE UNION {
           {m \in AdcMsgs \cup NmdcMsgs :
              \/ p.protoState = "connected" /\ m.type = "AdcSupports"
              \/ p.protoState = "connected" /\ m.type = "MyNick" /\ m.nick = dl[d].peer
              \/ /\ p.protoState = "supports" /\ m.type = "AdcInfos" /\ m.ok
                 /\ m.nick = dl[d].peer /\ m.token = dl[d].adcToken
              \/ p.protoState = "supports" /\ m.type = "Direction" /\ m.dir = "Upload"
              \/ p.protoState = "mynick" /\ m.type = "Lock"
              \/ p.protoState = "lock" /\ m.type = "Supports"
              \/ p.protoState = "direction" /\ m.type = "Key"}
           : d \in {x \in Awaited : p.adcToken \in {0, dl[x].adcToken}} }

\* one goroutine of connPeer.do, fed by its peer
ConnStep(c) ==
    \/ ConnStart(c)
    \/ ConnDialed(c)
    \/ \E m \in AnswerMsgs(c) : ConnRecv(c, m)

FetchActions(nicks, maxDl, maxConn) ==
    \/ \E n \in nicks : NextDl <= maxDl /\ DownloadFile(n, PlainConf)
    \/ \E d \in DlIds : DlStep(d)
    \/ PeerConnects(maxConn)
    \/ \E c \in ConnIds : ConnStep(c)

\* the Go scheduler runs every goroutine that can take a step, and the peer goes on
\* sending what it has to send
FetchFairness(maxConn) ==
    /\ \A d \in DlIds : WF_vars(DlStep(d))
    /\ \A c \in ConnIds : WF_vars(ConnStep(c))
    /\ WF_vars(PeerConnects(maxConn))

\* the configurations of a download: any start, any length (-1 and 0 ask for the rest of
\* the file), in a file or in RAM, a file list or a file, validated or not
Confs ==
    [start : 0..MaxStart, length : -1..MaxLen, savePath : BOOLEAN,
     skipValidation : BOOLEAN, isFilelist : BOOLEAN, noZlib : BOOLEAN]

\* what any peer sends on a connection that a download owns
Replies(c) ==
    IF conn[c].state = "delegated_download"
    THEN ReplyMsgs \cup {m \in AdcMsgs \cup NmdcMsgs :
                           m.type \in {"AdcStatus", "MaxedOut", "Error"}}
    ELSE {}

\* One download of any configuration, one connection of its peer, any reply.
NextTransfer ==
    \/ \E n \in OneNick, conf \in Confs : NextDl <= OneDl /\ DownloadFile(n, conf)
    \/ \E d \in DlIds : DlStep(d)
    \/ PeerConnects(OneConn)
    \/ \E c \in ConnIds : ConnStep(c)
    \/ \E c \in ConnIds : \E m \in Replies(c) : ConnRecv(c, m)
    \/ \E c \in ConnIds : ConnExit(c)

SpecTransfer == Init /\ [][NextTransfer]_vars

\* Two peers that connect to fetch the file of the share or a file that is not there,
\* from any start and of any length.
NextServe ==
    \/ ConnActions(MaxConn, NoUp, AnyNick)
    \/ \E c \in ConnIds : \E m \in RequestMsgs :
          /\ conn[c].protoState = "wait_upload"
          /\ NextUp <= MaxUp
          /\ ConnRecv(c, m)
    \/ UploadActions

SpecServe == Init /\ [][NextServe]_vars

\* Two downloads, of one peer or of two, each peer answering on its own connection.
NextSuccess == FetchActions(Nicks, PairDl, MaxConn)

SpecSuccess == Init /\ [][NextSuccess]_vars /\ FetchFairness(MaxConn)

\* Three downloads of one peer, which answers on one connection.
NextSerial == FetchActions(OneNick, MaxDl, OneConn)

SpecSerial == Init /\ [][NextSerial]_vars /\ FetchFairness(OneConn)

\* ------------------------------------------------------------- any peer
\* A peer that does not follow the handshake: any message of the protocol at any moment.
StrayActions(nicks) ==
    \E c \in ConnIds : \E m \in AdcMsgs \cup NmdcMsgs :
        /\ m.nick \in nicks \cup {NoNick}
        /\ m.token \in {NotProvided} \cup (0..OneDl)
        /\ ConnRecv(c, m)

\* One download and one connection, whose peer sends what it likes.
NextHandshake ==
    \/ QueueActions(OneNick, OneDl)
    \/ ConnActions(OneConn, OneUp, OneOrUnknown)
    \/ StrayActions(OneOrUnknown)
    \/ RequestActions
    \/ UploadActions

SpecHandshake == Init /\ [][NextHandshake]_vars

\* ------------------------------------------------------------- properties
\* the downloads that hold a download slot: past the slot gate, handleExit not run
SlotHolders ==
    {d \in DlIds : /\ dl[d].exits = 0
                   /\ dl[d].state \in {"waited_slot", "waiting_peer", "waited_peer",
                                       "processing", "success"}}

\* the downloads from n that are past the per-peer gate, handleExit not run
PastPeerGate(n) ==
    {d \in DlIds : /\ dl[d].peer = n
                   /\ dl[d].exits = 0
                   /\ dl[d].state \in {"waited_activedl", "waiting_slot", "waited_slot",
                                       "waiting_peer", "waited_peer", "processing"}}

\* the uploads registered in transfers
ActiveUploads == {u \in UpIds : Up(u) \in transfers}

\* no goroutine is blocked inside a block of code that holds the mutex
Quiet == mutex = "free"

\* C1: whenever no handler is in progress, downloadSlotAvail plus the number of
\* downloads that hold a download slot equals the configured number of download slots.
DownloadSlotsConserved ==
    Quiet => downloadSlotAvail + Cardinality(SlotHolders) = DownloadSlots

\* C2: uploadSlotAvail plus the number of uploads registered in transfers equals the
\* configured number of upload slots, whatever requests were accepted or refused and
\* however the uploads ended.
UploadSlotsConserved ==
    uploadSlotAvail + Cardinality(ActiveUploads) = UploadSlots

\* an upload has ended, another one holds the only slot, and a second peer that waits
\* for uploads has its requests refused
UploadRefusedWhileFull ==
    /\ uploadSlotAvail = 0
    /\ \E u \in UpIds : up[u].exits = 1
    /\ \E c1, c2 \in ConnIds :
          /\ conn[c1].state = "delegated_upload"
          /\ conn[c2].state = "connected"
          /\ conn[c2].protoState = "wait_upload"
          /\ conn[c2].run = "loop"

OnePerPeer ==
    Quiet => \A n \in Nicks : Cardinality(PastPeerGate(n)) <= 1

\* od leaves waiting_activedl in this step
Woken(od) ==
    /\ dl[od].state = "waiting_activedl"
    /\ dl'[od].state = "waited_activedl"

\* d runs handleExit in this step
Exits(d) == dl'[d].exits = dl[d].exits + 1

Unreferenced(d) == \A c \in ConnIds : conn[c].transfer # Dl(d)

\* the goroutine of d has returned and no connection will run its handleExit
Finished(d) == dl[d].pc = "done" /\ Unreferenced(d)

\* C6: a download that was not closed and has come to its end has had exactly one of
\* OnDownloadSuccessful and OnDownloadError, once.
OneCallbackEach ==
    Quiet => \A d \in DlIds :
                (dl[d].closeCalls = 0 /\ Finished(d)) =>
                    dl[d].cbSuccess + dl[d].cbError = 1

\* C7: once Close was called on a download, none of its callbacks is invoked.
NoCallbackAfterClose ==
    [][\A d \in DlIds :
          dl[d].terminateRequested =>
             /\ dl'[d].cbSuccess = dl[d].cbSuccess
             /\ dl'[d].cbError = dl[d].cbError]_vars

\* C8: a call of Close on a download whose Close was already called changes nothing
\* but the count of the calls: no field of the download, nothing on the terminate
\* channel, no connection, and the caller is not blocked.
SecondCloseIsNoop ==
    [][\A d \in DlIds :
          (dl[d].closeCalls >= 1 /\ dl'[d].closeCalls = dl[d].closeCalls + 1) =>
             /\ dl' = [dl EXCEPT ![d].closeCalls = @ + 1]
             /\ UNCHANGED <<remote, protoIsAdc, mutex, transfers, activeDownloadsByPeer,
                            downloadSlotAvail, uploadSlotAvail, connPeers,
                            connPeersByKey, conn, up, dlWoken>>]_vars

\* Close was called twice on a download that transfers on a connection it took over
ClosedTwice ==
    \E d \in DlIds : dl[d].closeCalls = 2 /\ dl[d].state = "processing"

\* C9: a transfer is in transfers until its handleExit runs, and handleExit runs exactly
\* once: never twice, and once for every transfer that has come to its end.
ExitOncePerTransfer ==
    Quiet =>
       /\ \A d \in DlIds :
             Created(d) =>
                /\ dl[d].exits <= 1
                /\ dl[d].exits = 0 <=> Dl(d) \in transfers
                /\ Finished(d) => dl[d].exits = 1
       /\ \A u \in UpIds :
             up[u].pconn # 0 =>
                /\ up[u].exits <= 1
                /\ up[u].exits = 0 <=> Up(u) \in transfers

\* the connections of connPeers whose handshake resolved to key
LiveConns(key) ==
    {c \in connPeers : conn[c].peer = key[1] /\ conn[c].direction = key[2]}

\* c fails in this step because its pair is already in the index
FailsAsDuplicate(c) == conn[c].err # DuplicateError /\ conn'[c].err = DuplicateError

\* C10: at most one live connection has a given (nick, direction), the index holds it,
\* and a handshake that resolves to a pair already in the index fails the new connection
\* and leaves the index and every other connection as they were.
OneConnPerKey ==
    /\ [](\A key \in Keys :
             /\ Cardinality(LiveConns(key)) <= 1
             /\ \A c \in LiveConns(key) : connPeersByKey[key] = c
             /\ connPeersByKey[key] # 0 => connPeersByKey[key] \in LiveConns(key))
    /\ [][\A c \in ConnIds :
             FailsAsDuplicate(c) =>
                /\ conn'[c].run = "exiting"
                /\ conn'[c].direction = ""
                /\ connPeersByKey' = connPeersByKey
                /\ connPeers' = connPeers
                /\ \A o \in ConnIds \ {c} : conn'[o] = conn[o]]_vars

\* a connection failed as a duplicate of a live connection of the same peer
DuplicateFailed ==
    \E c \in ConnIds, dir \in Directions : \E o \in ConnIds \ {c} :
        /\ conn[c].err = DuplicateError
        /\ conn[c].run = "exiting"
        /\ conn[c].peer \in Nicks
        /\ connPeersByKey[<<conn[c].peer, dir>>] = o
        /\ conn[o].run = "loop"

\* C11: terminate() never panics, in whatever state the connection is.
TerminateNeverPanics == Alive

\* C12: a connection whose goroutine has ended is not in connPeers, and no entry of
\* connPeersByKey maps to it.
EndedConnsForgotten ==
    \A c \in ConnIds :
        conn[c].run = "ended" =>
           /\ c \notin connPeers
           /\ \A key \in Keys : connPeersByKey[key] # c

\* a connection that had resolved its pair and served an upload has ended
ServingConnEnded ==
    \E c \in ConnIds, u \in UpIds : conn[c].run = "ended" /\ up[u].pconn = c

\* d runs handleExit with the error of the peer-wait timeout in this step
TimesOut(d) ==
    /\ dl[d].pc = "exiting"
    /\ dl[d].err = "timed out"
    /\ dl'[d].pc = "done"

\* od is handed a download slot in this step
HandedSlot(od) ==
    /\ dl[od].state = "waiting_slot"
    /\ dl'[od].state = "waited_slot"

\* The exit of a download whose peer-wait timed out, when it runs, invokes OnDownloadError once
\* and not OnDownloadSuccessful, removes it from transfers, releases the per-peer entry
\* or wakes one download that waits for the peer, gives the slot back or hands it to
\* one download that waits for a slot, and the download's goroutine takes no further
\* step (it requests no connection again).
TimeoutReleases ==
    [][\A d \in DlIds :
          /\ TimesOut(d) =>
               LET n == dl[d].peer
                   peerWaiters == {od \in DlIds \ {d} :
                                     /\ Dl(od) \in transfers
                                     /\ dl[od].terminateRequested = FALSE
                                     /\ dl[od].state = "waiting_activedl"
                                     /\ dl[od].peer = n}
                   slotWaiters == {od \in DlIds \ {d} :
                                     /\ Dl(od) \in transfers
                                     /\ dl[od].terminateRequested = FALSE
                                     /\ dl[od].state = "waiting_slot"}
                   wokenPeer == {od \in DlIds : Woken(od)}
                   wokenSlot == {od \in DlIds : HandedSlot(od)}
               IN /\ dl'[d].cbError = dl[d].cbError + 1
                  /\ dl'[d].cbSuccess = dl[d].cbSuccess
                  /\ Dl(d) \notin transfers'
                  /\ IF peerWaiters = {}
                     THEN wokenPeer = {} /\ activeDownloadsByPeer'[n] = 0
                     ELSE Cardinality(wokenPeer) = 1 /\ wokenPeer \subseteq peerWaiters
                  /\ IF slotWaiters = {}
                     THEN wokenSlot = {} /\ downloadSlotAvail' = downloadSlotAvail + 1
                     ELSE /\ Cardinality(wokenSlot) = 1
                          /\ wokenSlot \subseteq slotWaiters
                          /\ downloadSlotAvail' = downloadSlotAvail
          /\ dl[d].pc = "done" => dl'[d].pc = "done"]_vars

\* a download timed out waiting for its peer, was reported, and the download that
\* waited for its slot has it; Close was never called
TimedOutAndHandedOver ==
    /\ CloseCount(DlIds) = 0
    /\ \E d \in DlIds :
          /\ dl[d].pc = "done"
          /\ dl[d].state = "waiting_peer"
          /\ dl[d].cbError = 1
          /\ \E od \in DlIds \ {d} : dl[od].state = "waited_slot"

\* C13: a download whose peer-wait timed out is reported and released: its goroutine,
\* which waits for the client lock to run handleExit, is never left behind a lock
\* that is held forever.
TimedOutIsReported ==
    \A d \in DlIds :
        (dl[d].pc = "exiting" /\ dl[d].err = "timed out") => mutex # "stuck"

\* C14: in a fair run where the peer answers and the transport does not fail, every
\* download issued eventually ends with OnDownloadSuccessful; OnDownloadSuccessful is
\* never invoked twice for a download and OnDownloadError never at all.
EveryDownloadSucceeds ==
    /\ \A d \in DlIds : Created(d) ~> (dl[d].cbSuccess = 1)
    /\ [](\A d \in DlIds : dl[d].cbSuccess <= 1 /\ dl[d].cbError = 0)

\* a download went through the whole pipeline: requested a connection, was handed it by
\* the handshake, wrote its request, received the content, and was reported successful
SucceededOnNewConn ==
    \E d \in DlIds, c \in ConnIds :
        /\ dl[d].pconn = c
        /\ dl[d].state = "success"
        /\ dl[d].sent = 1
        /\ dl[d].offset = PlainLen
        /\ dl[d].cbSuccess = 1
        /\ conn[c].direction = "download"

\* the downloads that hold a peer connection and transfer
Transferring ==
    {d \in DlIds : Dl(d) \in transfers /\ dl[d].state \in {"waited_peer", "processing"}}

\* C15: with one download slot, the downloads issued from one peer never transfer at
\* the same time, and in a fair run where the peer answers and the transport does not
\* fail, once all of them are issued all of them end with OnDownloadSuccessful.
SerialAndAllSucceed ==
    /\ [](Cardinality(Transferring) <= 1)
    /\ (\A d \in DlIds : Created(d))
          ~> (\A d \in DlIds : dl[d].cbSuccess = 1 /\ dl[d].cbError = 0)

\* all the downloads were issued while the first was transferring, and all succeeded
QueuedBehindAllSucceeded ==
    /\ \A d \in DlIds : dl[d].cbSuccess = 1
    /\ dlWoken # {}

\* the downloads issued that have not run handleExit: queued at a gate, waiting for
\* their connection, or transferring
Remaining == {d \in DlIds : Created(d) /\ dl[d].exits = 0}

\* d's OnDownloadSuccessful is invoked in this step
Succeeds(d) == dl'[d].cbSuccess = dl[d].cbSuccess + 1

\* C16: DownloadCount() is the number of downloads queued or active, and when a
\* download's OnDownloadSuccessful runs the download is not counted any more: the
\* count is that of the other remaining downloads, 0 when it was the last one.
CountExcludesFinished ==
    /\ [](DownloadCount(transfers) = Cardinality(Remaining))
    /\ [][\A d \in DlIds :
            Succeeds(d) =>
               /\ Dl(d) \notin transfers'
               /\ DownloadCount(transfers') = Cardinality(Remaining \ {d})
               /\ Remaining \subseteq {d} => DownloadCount(transfers') = 0]_vars

\* the download that waited for the other one to end has succeeded as the last
\* remaining one, and the count is 0
LastOneCountsZero ==
    \E d \in dlWoken :
        /\ dl[d].cbSuccess = 1
        /\ \A od \in DlIds \ {d} : Created(od) => dl[od].exits > 0
        /\ \E od \in DlIds \ {d} : Created(od)
        /\ DownloadCount(transfers) = 0

\* connection c handles the peer's Key in this step: the election takes place
KeyStep(c) ==
    /\ conn[c].run = "loop"
    /\ conn[c].protoState = "direction"
    /\ conn'[c].protoState # "direction"

\* the election of c gave dir: c took the pair (peer, dir) of the index, or was failed
\* because that pair was taken
Resolved(c, dir) ==
    LET key == <<conn[c].peer, dir>> IN
    IF connPeersByKey[key] # 0
    THEN /\ conn'[c].err = DuplicateError
         /\ connPeersByKey' = connPeersByKey
    ELSE /\ conn'[c].direction = dir
         /\ connPeersByKey' = [connPeersByKey EXCEPT ![key] = c]

\* the election of c gave 'upload': unless the pair was taken, c waits for requests
ResolvedUpload(c) ==
    /\ Resolved(c, "upload")
    /\ (conn'[c].err = "" => conn'[c].protoState = "wait_upload")

\* the election of c was aborted with e: the connection leaves its loop, has no
\* direction and the index is as it was
Aborted(c, e) ==
    /\ conn'[c].err = e
    /\ conn'[c].run = "exiting"
    /\ conn'[c].direction = ""
    /\ conn'[c].protoState = "key"
    /\ conn'[c].state = "connected"
    /\ connPeersByKey' = connPeersByKey

\* C17: local Upload and remote Download resolve to 'upload', local Download and remote
\* Upload resolve to 'download', whatever the two bets are.
OppositeDesires ==
    [][\A c \in ConnIds :
          KeyStep(c) =>
             /\ (conn[c].localDirection = "upload" /\ conn[c].remoteDirection = "download")
                   => ResolvedUpload(c)
             /\ (conn[c].localDirection = "download" /\ conn[c].remoteDirection = "upload")
                   => Resolved(c, "download")]_vars

\* a connection whose local side asked to download with the lower bet, from a peer that
\* asked to upload, is the download's connection
DownloaderWithLowerBet ==
    \E c \in ConnIds :
        /\ conn[c].localDirection = "download"
        /\ conn[c].remoteDirection = "upload"
        /\ conn[c].localBet < conn[c].remoteBet
        /\ conn[c].direction = "download"
        /\ conn[c].state = "delegated_download"

\* C18: when both sides announced Download the local side resolves to 'download' with
\* the strictly higher bet and to 'upload' with the strictly lower one; with equal bets
\* the connection is aborted with 'equal random numbers' and never is in the index.
BothDownload ==
    /\ [](\A c \in ConnIds : conn[c].err = "equal random numbers" =>
             /\ c \notin {connPeersByKey[key] : key \in Keys}
             /\ conn[c].direction = "")
    /\ [][\A c \in ConnIds :
            (/\ KeyStep(c)
             /\ conn[c].localDirection = "download"
             /\ conn[c].remoteDirection = "download") =>
                IF conn[c].localBet > conn[c].remoteBet THEN Resolved(c, "download")
                ELSE IF conn[c].localBet < conn[c].remoteBet
                THEN ResolvedUpload(c)
                ELSE Aborted(c, "equal random numbers")]_vars

\* two connections of a peer, both sides asking to download on both: one lost its bet
\* and serves uploads, the other won and is the download's connection
LoserUploadsWinnerDownloads ==
    \E c \in ConnIds : \E o \in ConnIds \ {c} :
        /\ conn[c].localDirection = "download" /\ conn[c].remoteDirection = "download"
        /\ conn[o].localDirection = "download" /\ conn[o].remoteDirection = "download"
        /\ conn[c].localBet < conn[c].remoteBet
        /\ conn[c].direction = "upload"
        /\ conn[c].protoState = "wait_upload"
        /\ conn[o].localBet > conn[o].remoteBet
        /\ conn[o].direction = "download"
        /\ conn[o].state = "delegated_download"

\* C19: when both sides announced Upload the connection is failed with 'double upload
\* request'; it never is in connPeersByKey and never is in wait_upload nor delegated
\* to a transfer.
BothUpload ==
    /\ [](\A c \in ConnIds : conn[c].err = "double upload request" =>
             /\ c \notin {connPeersByKey[key] : key \in Keys}
             /\ conn[c].run = "exiting"
             /\ conn[c].protoState = "key"
             /\ conn[c].state = "connected")
    /\ [][\A c \in ConnIds :
            (/\ KeyStep(c)
             /\ conn[c].localDirection = "upload"
             /\ conn[c].remoteDirection = "upload") =>
                Aborted(c, "double upload request")]_vars
    /\ [][\A c \in ConnIds :
            conn[c].err = "double upload request" =>
               conn'[c] \in {conn[c], EndedConn}]_vars

\* a handshake of two uploaders was failed, whatever the bets
DoubleUploadFailed ==
    \E c \in ConnIds :
        /\ conn[c].localDirection = "upload"
        /\ conn[c].remoteDirection = "upload"
        /\ conn[c].localBet # conn[c].remoteBet
        /\ conn[c].err = "double upload request"

\* the NMDC handshake and request messages, each with the substate its handler requires
RequiredSubstate ==
    [MyNick |-> "connected", Lock |-> "mynick", Supports |-> "lock",
     Direction |-> "supports", Key |-> "direction", GetFile |-> "wait_upload"]

\* the substate an accepted message leaves, when the handler does not fail for another
\* reason
SubstatesAfter ==
    [connected |-> {"mynick"}, mynick |-> {"lock"}, lock |-> {"supports"},
     supports |-> {"direction"}, direction |-> {"key", "wait_upload", "wait_download"},
     key |-> {}, wait_upload |-> {}, wait_download |-> {}]

OrderedMsgs == {m \in NmdcMsgs : m.type \in DOMAIN RequiredSubstate}

\* C20: an NMDC connection accepts MyNick, Lock, Supports, Direction, Key in this order
\* only and GetFile in wait_upload only: a handshake or request message in any other
\* substate, or while a download is in progress, fails the connection with nothing
\* changed, and a failed connection takes no step but its end, after which it is closed
\* and out of connPeers.
HandshakeInOrder ==
    /\ [](\A c \in ConnIds : \A m \in OrderedMsgs :
            (~protoIsAdc /\ mutex = "free" /\ conn[c].run = "loop") =>
               /\ (conn[c].state = "connected"
                     /\ conn[c].protoState # RequiredSubstate[m.type]) =>
                      handleMessage(World, c, m) = {Fail(World, "invalid state")}
               /\ (conn[c].state = "connected"
                     /\ conn[c].protoState = RequiredSubstate[m.type]) =>
                      \A w \in handleMessage(World, c, m) : w.err # "invalid state"
               /\ conn[c].state = "delegated_download" =>
                      handleDownload(World, conn[c].transfer[2], m).err = "unhandled")
    /\ [][\A c \in ConnIds :
            /\ (~protoIsAdc /\ conn[c].run = "loop" /\ conn'[c].run # "") =>
                  \/ conn'[c].protoState = conn[c].protoState
                  \/ conn[c].protoState = "" /\ conn'[c].protoState = "connected"
                  \/ /\ conn[c].protoState # ""
                     /\ conn'[c].protoState \in SubstatesAfter[conn[c].protoState]
            /\ conn[c].run = "exiting" =>
                  \/ conn'[c] = conn[c]
                  \/ conn'[c] = EndedConn /\ c \notin connPeers'
            /\ conn[c].run = "ended" => conn'[c] = conn[c]]_vars

\* an NMDC connection that received a message ahead of its turn (its substate is lock,
\* where only Supports is accepted) and was failed
FailedOutOfOrder ==
    \E c \in ConnIds :
        /\ ~protoIsAdc
        /\ conn[c].protoState = "lock"
        /\ conn[c].err = "invalid state"
        /\ conn[c].run = "exiting"

\* the messages connection c has written so far
Wrote(c) == {conn[c].wrote[i] : i \in DOMAIN conn[c].wrote}

\* connection c has handled a message of its peer
HeardPeer(c) == conn[c].protoState \notin {"", "connected"}

\* C21 as stated: on an ADC connection the accepting side (isActive) is the first to
\* send CSUP: it has sent it when it waits for the first message of its peer, and the
\* dialing side has sent its CSUP only after it handled the peer's.
ActiveSendsSupportsFirst ==
    \A c \in ConnIds :
        (protoIsAdc /\ conn[c].run = "loop") =>
            /\ (conn[c].isActive /\ conn[c].protoState = "connected")
                  => "AdcSupports" \in Wrote(c)
            /\ (~conn[c].isActive /\ "AdcSupports" \in Wrote(c)) => HeardPeer(c)

\* C21, amended: on an ADC connection the dialing side is the first to send CSUP: it has
\* sent it, before anything else, when it waits for the first message of its peer, and
\* the accepting side sends its CSUP only when it has handled the peer's, as the first
\* thing it sends.
DialerSendsSupportsFirst ==
    \A c \in ConnIds :
        (protoIsAdc /\ conn[c].run = "loop") =>
            /\ (~conn[c].isActive /\ conn[c].protoState # "")
                  => (conn[c].wrote # <<>> /\ conn[c].wrote[1] = "AdcSupports")
            /\ (conn[c].isActive /\ ~HeardPeer(c)) => conn[c].wrote = <<>>
            /\ (conn[c].isActive /\ HeardPeer(c))
                  => (conn[c].wrote # <<>> /\ conn[c].wrote[1] = "AdcSupports")

\* an accepted ADC connection has handled the CSUP of the dialing peer and answered
\* with its own
AcceptorAnsweredSupports ==
    \E c \in ConnIds :
        /\ protoIsAdc
        /\ conn[c].isActive
        /\ conn[c].protoState = "supports"
        /\ conn[c].wrote = <<"AdcSupports">>

\* the positions Download.do may reach from each position
DoOrder ==
    [start |-> {"sel_activedl", "gate_slot"},
     sel_activedl |-> {"gate_slot", "exiting"},
     gate_slot |-> {"sel_slot", "gate_peer"},
     sel_slot |-> {"gate_peer", "exiting"},
     gate_peer |-> {"sel_peer", "write"},
     sel_peer |-> {"write", "exiting"},
     write |-> {"done"},
     exiting |-> {"done"},
     done |-> {}]

\* Download.do runs the per-peer gate, the slot gate and the peer-connection gate in
\* this order and writes GetFile only after the third; each gate is left with what it
\* grants: the entry of the peer is taken, then a slot is, then a connection is delegated.
GatesInOrder ==
    [][\A d \in DlIds :
          (Created(d) /\ dl'[d].pc # dl[d].pc) =>
             /\ dl'[d].pc \in DoOrder[dl[d].pc]
             /\ dl'[d].pc = "gate_slot" => activeDownloadsByPeer'[dl[d].peer] # 0
             /\ (dl'[d].pc = "gate_peer" /\ mutex' = "free") => d \in SlotHolders'
             /\ (dl'[d].pc = "write" /\ mutex' = "free") =>
                   /\ dl'[d].pconn # 0
                   /\ conn'[dl'[d].pconn].transfer = Dl(d)
                   /\ conn'[dl'[d].pconn].state = "delegated_download"]_vars

\* d writes GetFile in this step and the socket of its connection is open: it is sent
SendsGetFile(d) ==
    /\ dl[d].pc = "write"
    /\ dl'[d].pc = "done"
    /\ ~conn[dl[d].pconn].closed

\* C22: when GetFile is sent for a download, the download holds what the three gates
\* grant: the per-peer entry of its peer is taken, it holds a download slot, and its
\* connection is delegated to it.
GetFileOnlyWhileHolding ==
    [][\A d \in DlIds :
          SendsGetFile(d) =>
             /\ activeDownloadsByPeer[dl[d].peer] # 0
             /\ d \in SlotHolders
             /\ conn[dl[d].pconn].transfer = Dl(d)
             /\ conn[dl[d].pconn].state = "delegated_download"]_vars

\* the connections whose reader may return a reply to the request of a download
Replying == {c \in ConnIds : /\ conn[c].run = "loop"
                             /\ conn[c].state = "delegated_download"
                             /\ ~conn[c].closed
                             /\ ~conn[c].readBinary}

\* the reply echoes the request of d: the query, the start, the length unless the
\* request left it open, and no compression where it is disabled
EchoesRequest(d, m) ==
    /\ m.ok
    /\ m.start = dl[d].conf.start
    /\ ~(m.compressed /\ dl[d].conf.noZlib)
    /\ dl[d].conf.length # -1 => m.length = dl[d].conf.length

\* the errors of handleSendFile
SendFileErrors ==
    {"wrong query", "wrong start", "compression is disabled", "wrong length", "null file"}

\* C23: whatever SendFile a peer replies with, the download accepts it only if it echoes
\* the query, the start, the requested length (when one was requested) and is not
\* compressed where compression is disabled; a reply that violates one of these fails
\* the download and leaves the reader in line mode, the writer nil and no file created.
SendFileChecked ==
    \A c \in Replying : \A m \in {x \in ReplyMsgs : x.type = "SendFile"} :
        LET d == conn[c].transfer[2]
            r == handleDownload(World, d, m)
        IN /\ r.err = "" => EchoesRequest(d, m)
           /\ r.err = "" => r.dl[d].writer = "open" /\ r.conn[c].readBinary
           /\ ~EchoesRequest(d, m) =>
                 /\ r.err \in SendFileErrors
                 /\ ~r.conn[c].readBinary
                 /\ r.dl[d].writer = ""
                 /\ ~r.dl[d].tmp /\ ~r.dl[d].final

\* a download to a file asked for a given length, the reply announced another one: the
\* connection is about to report the error, and nothing was opened
RefusedWrongLength ==
    \E c \in ConnIds :
        /\ conn[c].run = "exiting"
        /\ conn[c].err = "wrong length"
        /\ conn[c].state = "delegated_download"
        /\ LET d == conn[c].transfer[2] IN
              /\ dl[d].conf.savePath
              /\ dl[d].writer = ""
              /\ ~dl[d].tmp
              /\ ~conn[c].readBinary

\* the connections whose reader returns the content of a download
Receiving == {c \in ConnIds : /\ conn[c].run = "loop"
                              /\ conn[c].state = "delegated_download"
                              /\ ~conn[c].closed
                              /\ conn[c].readBinary}

\* C24: the bytes written never exceed the declared length: offset <= length in every
\* state, the writer stays open while offset < length and is closed, the transfer
\* complete, exactly when a chunk brings offset to length; a chunk that would exceed
\* the length fails the download and none of it is written.
ChunksWithinLength ==
    /\ [](\A d \in DlIds :
             /\ dl[d].offset <= dl[d].length
             /\ dl[d].writer = "open" => dl[d].offset < dl[d].length
             /\ dl[d].writer = "closed" => dl[d].offset = dl[d].length)
    /\ [](\A c \in Receiving : \A m \in {x \in ReplyMsgs : x.type = "Binary"} :
             LET d == conn[c].transfer[2]
                 r == handleDownload(World, d, m)
             IN /\ dl[d].offset + m.size > dl[d].length =>
                      r = Fail(World, "binary content too long")
                /\ dl[d].offset + m.size <= dl[d].length =>
                      /\ r.dl[d].offset = dl[d].offset + m.size
                      /\ r.err \in {"", "terminated", "validation failed"}
                      /\ r.err = "" <=> r.dl[d].offset < r.dl[d].length)
    /\ [][\A d \in DlIds :
             dl'[d].offset # dl[d].offset =>
                /\ dl'[d].offset > dl[d].offset
                /\ dl'[d].writer = "closed" <=> dl'[d].offset = dl'[d].length]_vars

\* a download received a part of the content and then a chunk longer than the rest: the
\* connection is about to report the error, the offset is where it was
OverrunRefused ==
    \E c \in ConnIds :
        /\ conn[c].run = "exiting"
        /\ conn[c].err = "binary content too long"
        /\ conn[c].state = "delegated_download"
        /\ LET d == conn[c].transfer[2] IN
              /\ dl[d].offset > 0
              /\ dl[d].offset < dl[d].length
              /\ dl[d].writer = "open"

\* the downloads whose content is validated: a normal file asked for as a whole
Validated(d) ==
    /\ ~dl[d].conf.isFilelist
    /\ ~dl[d].conf.skipValidation
    /\ dl[d].conf.start = 0
    /\ dl[d].conf.length = -1

\* C25: a validated download (normal file, start 0, length -1, SkipValidation false)
\* succeeds, its .tmp file moved to the final path, only if the content written hashes
\* to conf.TTH, and fails with "validation failed" when the last chunk leaves a content
\* that does not; for any other download the last chunk ends the transfer with success
\* whatever the content hashes to.
ValidationDecides ==
    /\ [][\A d \in DlIds :
             /\ (Succeeds(d) /\ Validated(d)) => dl'[d].tthOk
             /\ Succeeds(d) =>
                   /\ dl'[d].offset = dl'[d].length
                   /\ dl'[d].conf.savePath => dl'[d].final /\ ~dl'[d].tmp]_vars
    /\ [](\A c \in Receiving : \A m \in {x \in ReplyMsgs : x.type = "Binary"} :
             LET d == conn[c].transfer[2]
                 r == handleDownload(World, d, m)
             IN dl[d].offset + m.size = dl[d].length =>
                  IF Validated(d) /\ ~m.tth
                  THEN /\ r.err = "validation failed"
                       /\ ~r.dl[d].final
                       /\ r.dl[d].tmp = dl[d].tmp
                  ELSE r.err = "terminated")

\* a validated download to a file received all the bytes and they hash to something
\* else: the connection is about to report the error, the .tmp file is left behind
ValidationFailed ==
    \E c \in ConnIds :
        /\ conn[c].run = "exiting"
        /\ conn[c].err = "validation failed"
        /\ LET d == conn[c].transfer[2] IN
              /\ Validated(d)
              /\ dl[d].offset = dl[d].length
              /\ dl[d].conf.savePath /\ dl[d].tmp /\ ~dl[d].final
              /\ dl[d].cbSuccess = 0

\* the connections that wait for a request of their peer
WaitingUpload == {c \in ConnIds : /\ conn[c].run = "loop"
                                  /\ conn[c].state = "connected"
                                  /\ conn[c].protoState = "wait_upload"
                                  /\ ~conn[c].closed}

\* C26: a request that arrives while uploadSlotAvail <= 0 is answered with MaxedOut
\* (NMDC) or the slots-full warning (ADC) and nothing else happens: no upload is
\* registered, the counter and the connection are as they were, no error ends the
\* connection; no step taken while uploadSlotAvail <= 0 registers an upload; and the
\* same connection, once a slot is available, has a request for the file accepted.
SlotsFullRefused ==
    /\ [](\A c \in WaitingUpload : \A m \in RequestMsgs :
             /\ uploadSlotAvail <= 0 =>
                   handleMessage(World, c, m) = {[World EXCEPT !.out = <<NoSlotsAnswer>>]}
             /\ (uploadSlotAvail > 0 /\ NextUp <= MaxUp /\ m = GetFile(TRUE, 0, -1)) =>
                   \A r \in handleMessage(World, c, m) :
                       /\ r.out = <<Answer("SendFile", FileSize)>>
                       /\ r.conn[c].state = "delegated_upload"
                       /\ r.conn[c].transfer \in r.transfers)
    /\ [][uploadSlotAvail <= 0 =>
             /\ \A u \in UpIds : Up(u) \in transfers' => Up(u) \in transfers
             /\ uploadSlotAvail' >= uploadSlotAvail]_vars

\* every slot is taken by the upload to one peer while another peer, whose connection
\* waits for requests, sends one: it is answered that the slots are full
RequestWhileSlotsFull ==
    /\ uploadSlotAvail = 0
    /\ \E c1 \in ConnIds : conn[c1].state = "delegated_upload"
    /\ \E c \in WaitingUpload : \E m \in RequestMsgs :
          \E r \in handleMessage(World, c, m) : r.out = <<NoSlotsAnswer>>

\* the bytes of the file from the start of request m on, none when the start is beyond
\* its end
BytesFrom(m) == IF m.start <= FileSize THEN FileSize - m.start ELSE 0

\* C27: a request for the file of the share is accepted exactly when its start is not
\* beyond the end of the file and its length is -1 or at most the bytes remaining from
\* the start; the length announced in SendFile is then the requested length, or the
\* bytes remaining when the length is -1, and never more than the bytes remaining.
UploadLengthWithinFile ==
    \A c \in WaitingUpload : \A m \in {x \in RequestMsgs : x.ok} :
        (uploadSlotAvail > 0 /\ NextUp <= MaxUp) =>
           \A r \in handleMessage(World, c, m) :
               LET accepted == r.conn[c].state = "delegated_upload"
                   valid == /\ m.start <= FileSize
                            /\ m.length = -1 \/ m.length <= FileSize - m.start
               IN /\ accepted <=> valid
                  /\ accepted =>
                        /\ r.out = <<Answer("SendFile", IF m.length = -1
                                                         THEN BytesFrom(m)
                                                         ELSE m.length)>>
                        /\ r.out[1].length <= BytesFrom(m)

\* the connection c and its upload are left as they are in this step, or the
\* connection fails or is terminated
LeftOrEnded(c) ==
    \/ /\ conn'[c] = conn[c]
       /\ up'[conn[c].transfer[2]] = up[conn[c].transfer[2]]
    \/ conn'[c].run \in {"exiting", "ended"}

\* C28: while a connection is in state delegated_upload nothing but the end of the
\* upload (or the end of the connection) changes it: no message of the peer is handled;
\* the end of the upload returns it to connected / wait_upload, removes the upload from
\* transfers and gives back its slot; and a connection that waits for requests with a
\* slot available, as this one then does, has a request for the file accepted and served.
UploadReturnsToWaitUpload ==
    /\ [][\A c \in ConnIds :
             conn[c].state = "delegated_upload" =>
                \/ LeftOrEnded(c)
                \/ /\ conn'[c] = [conn[c] EXCEPT !.state = "connected",
                                                  !.transfer = NoTransfer]
                   /\ conn'[c].protoState = "wait_upload"
                   /\ conn[c].transfer \in transfers
                   /\ transfers' = transfers \ {conn[c].transfer}
                   /\ uploadSlotAvail' = uploadSlotAvail + 1
                   /\ up'[conn[c].transfer[2]].state = "success"
                   /\ c \in WaitingUpload']_vars
    /\ [](\A c \in WaitingUpload :
             (uploadSlotAvail > 0 /\ NextUp <= MaxUp) =>
                \A r \in handleMessage(World, c, GetFile(TRUE, 0, -1)) :
                    /\ r.err = ""
                    /\ r.out = <<Answer("SendFile", FileSize)>>
                    /\ r.conn[c].state = "delegated_upload"
                    /\ r.conn[c].transfer \in r.transfers
                    /\ r.uslot = uploadSlotAvail - 1)

\* a connection that served one upload to its end serves the next request of its peer
SecondUploadOnSameConn ==
    \E c \in ConnIds : \E u1, u2 \in UpIds :
        /\ u1 # u2
        /\ up[u1].pconn = c /\ up[u1].state = "success" /\ up[u1].exits = 1
        /\ up[u2].pconn = c /\ up[u2].state = "processing"
        /\ conn[c].state = "delegated_upload"
        /\ conn[c].transfer = Up(u2)
        /\ Up(u2) \in transfers
        /\ Up(u1) \notin transfers

\* the transfer of d is under way: a connection is delegated to it, open and running,
\* and Download.do is past its gates
UnderWay(d) ==
    /\ Dl(d) \in transfers
    /\ dl[d].pc \in {"write", "done"}
    /\ dl[d].pconn # 0
    /\ conn[dl[d].pconn].transfer = Dl(d)
    /\ conn[dl[d].pconn].state = "delegated_download"
    /\ conn[dl[d].pconn].run = "loop"
    /\ ~conn[dl[d].pconn].closed

\* Close is called on d for the first time in this step
FirstClose(d) == ~dl[d].terminateRequested /\ dl'[d].terminateRequested

\* C29: the first Close of a download whose transfer is under way closes the connection
\* of the download, whether the download attached itself to an existing connection
\* (state processing) or was woken by a new one (state waited_peer).
CloseClosesConn ==
    [][\A d \in DlIds :
          (FirstClose(d) /\ UnderWay(d)) => conn'[dl[d].pconn].closed]_vars

\* the transfer errors a peer reports or causes with its reply: MaxedOut, Error, a
\* status, a SendFile that does not echo the request
PeerErrors == {"error"} \cup SendFileErrors

\* OnDownloadError is called in this step for the download of connection c, which
\* failed with a transfer error of PeerErrors
ReportsPeerError(c) ==
    /\ conn[c].state = "delegated_download"
    /\ conn[c].err \in PeerErrors
    /\ dl'[conn[c].transfer[2]].cbError = dl[conn[c].transfer[2]].cbError + 1

\* C30: when a download fails with a transfer error reported by the peer, the error is
\* reported to the download and its connection is idle afterwards: running, in state
\* connected, open, and in the set and the index of the connections.
PeerErrorKeepsConn ==
    [][\A c \in ConnIds :
          ReportsPeerError(c) =>
             /\ conn'[c].run = "loop"
             /\ conn'[c].state = "connected"
             /\ conn'[c].transfer = NoTransfer
             /\ ~conn'[c].closed
             /\ c \in connPeers'
             /\ connPeersByKey'[<<conn[c].peer, conn[c].direction>>] = c]_vars

\* connection c hands itself to download d in this step: connPeer.handleMessage finds d
\* in state waiting_peer, delegates itself and sends the wake-up
HandsOver(c, d) ==
    /\ dl[d].state = "waiting_peer"
    /\ dl'[d].state = "waited_peer"
    /\ conn[c].transfer # Dl(d)
    /\ conn'[c].transfer = Dl(d)

\* C31: a hand-over completes: the handler that delegates a connection to a download in
\* state waiting_peer and sends the wake-up under the client lock leaves the lock free
\* and the download past its wait, about to write its request, also when the timeout
\* of the download or its Close fired just before.
HandOverCompletes ==
    [][\A c \in ConnIds : \A d \in DlIds :
          HandsOver(c, d) => mutex' = "free" /\ dl'[d].pc = "write"]_vars

\* C32: an entry of activeDownloadsByPeer refers to a download that is in transfers,
\* targets the nick of the entry and has passed the per-peer gate; and the exit that
\* wakes a download waiting at the per-peer gate leaves the entry of the peer
\* referring to the woken download.
ActiveEntryIsCurrent ==
    /\ [](\A n \in Nicks :
             LET d == activeDownloadsByPeer[n] IN
             d # 0 => /\ Dl(d) \in transfers
                      /\ dl[d].peer = n
                      /\ dl[d].state \notin {"uninitialized", "waiting_activedl"})
    /\ [][\A od \in DlIds :
             Woken(od) => activeDownloadsByPeer'[dl[od].peer] = od]_vars

\* ------------------------------------------------------------- two clients, one link
\* Two clients of one hub run the NMDC handshake with each other over one peer link.
\* The local client is the one of the variables above; the client at the other end is
\* the value of remote, and it takes the steps of the same handleMessage.  The local
\* client knows the remote one as PeerNick, the remote one knows the local one as OwnNick.
PeerNick == "a"
OwnNick == "b"
\* the connPeer that is the end of the link, in either client
Link == 1

\* the messages of the handshake (MyNick, Lock, Supports, Direction, Key) a connPeer
\* has handled, by its substate
Handled(p) ==
    CASE p.protoState \in {"", "connected"} -> 0
      [] p.protoState = "mynick" -> 1
      [] p.protoState = "lock" -> 2
      [] p.protoState = "supports" -> 3
      [] p.protoState = "direction" -> 4
      [] OTHER -> 5

\* the next message of the handshake that p can read of what q wrote, as a set: nick is
\* the conf.Nick of q's client, and q wrote the direction it announces with a capital
\* letter and its bet
Inbox(p, q, nick) ==
    IF Handled(p) < 5 /\ Handled(p) < Len(q.wrote)
    THEN LET type == q.wrote[Handled(p) + 1] IN
         {CASE type = "MyNick" -> Msg("MyNick", nick, "", 0, 0, TRUE)
            [] type = "Direction" ->
                  Msg("Direction", NoNick,
                      IF q.localDirection = "download" THEN "Download" ELSE "Upload",
                      q.localBet, 0, TRUE)
            [] OTHER -> Plain(type)}
    ELSE {}

\* the remote client, with its end of the link set up by newConnPeer and the first
\* iterations of connPeer.do, and with or without a download that waits for a connection
\* of the local client (DownloadFile and the three gates of Download.do)
RemoteClient(isActive, pending) ==
    LET w == [NewClient EXCEPT
                !.connPeers = {Link},
                !.conn[Link] = [NoConn EXCEPT !.run = "loop", !.isActive = isActive,
                                           !.state = "connected",
                                           !.protoState = "connected",
                                           !.wrote = IF isActive THEN <<>>
                                                     ELSE <<"MyNick", "Lock">>]]
    IN IF pending
       THEN [w EXCEPT !.transfers = {Dl(1)},
                      !.active[OwnNick] = 1,
                      !.dslot = @ - 1,
                      !.dl[1] = [NoDownload EXCEPT !.pc = "sel_peer", !.peer = OwnNick,
                                                   !.state = "waiting_peer"]]
       ELSE w

InitPair ==
    /\ protoIsAdc = FALSE
    /\ remote \in {RemoteClient(a, pending) : a \in BOOLEAN, pending \in BOOLEAN}
    /\ mutex = "free"
    /\ transfers = {}
    /\ activeDownloadsByPeer = [n \in Nicks |-> 0]
    /\ downloadSlotAvail = DownloadSlots
    /\ uploadSlotAvail = UploadSlots
    /\ connPeers = {}
    /\ connPeersByKey = [k \in Keys |-> 0]
    /\ dl = [d \in DlIds |-> NoDownload]
    /\ conn = [c \in ConnIds |-> NoConn]
    /\ up = [u \in UpIds |-> NoUpload]
    /\ dlWoken = {}

\* connPeer.do of the remote client, case "connected": it reads what the local client
\* wrote and handles it
RemoteRecv ==
    /\ conn[Link].run # ""
    /\ remote.mutex = "free"
    /\ remote.conn[Link].run = "loop"
    /\ \E m \in Inbox(remote.conn[Link], conn[Link], OwnNick) :
       \E w \in handleMessage(remote, Link, m) :
          remote' = IF w.err # "" /\ w.mutex # "stuck" THEN Return(w, Link, w.err) ELSE w
    /\ UNCHANGED <<protoIsAdc, mutex, transfers, activeDownloadsByPeer, downloadSlotAvail,
                   uploadSlotAvail, connPeers, connPeersByKey, dl, conn, up, dlWoken>>

\* The local client may have a download from the remote one; it accepts the link when
\* the remote client dialed and dials when the remote one accepted; each end reads
\* what the other wrote.
NextPair ==
    \/ NextDl <= OneDl /\ DownloadFile(PeerNick, PlainConf)
    \/ \E d \in DlIds : GateActiveDl(d)
    \/ \E d \in DlIds : GateSlot(d)
    \/ \E d \in DlIds : GatePeer(d)
    \/ NextConn = Link /\ newConnPeer(~remote.conn[Link].isActive, 0)
    \/ ConnStart(Link)
    \/ ConnDialed(Link)
    \/ \E m \in Inbox(conn[Link], remote.conn[Link], PeerNick) : ConnRecv(Link, m)
    \/ RemoteRecv
    \/ ConnExit(Link)

SpecPair == InitPair /\ [][NextPair]_vars

\* C33: when the two clients of a link both complete the NMDC handshake (each connPeer
\* runs and is in wait_upload or wait_download), one of them resolved the direction
\* download and the other the direction upload
ComplementaryDirections ==
    (\A p \in {conn[Link], remote.conn[Link]} :
        p.run = "loop" /\ p.protoState \in {"wait_upload", "wait_download"})
    => {conn[Link].direction, remote.conn[Link].direction} = Directions

\* both clients announced a download and both completed the handshake
BothWantedDownload ==
    \A p \in {conn[Link], remote.conn[Link]} :
        /\ p.run = "loop" /\ p.protoState \in {"wait_upload", "wait_download"}
        /\ p.localDirection = "download"

\* ------------------------------------------------------------- C34
\* C34: a connection is in a delegated state exactly when it holds a transfer, whose
\* pconn it is; no transfer is held by two connections; the transfer of a connection is
\* never replaced by another one; a download attaches itself to an existing connection
\* only when that connection is in state connected and holds no transfer
DelegatedHoldsItsTransfer ==
    /\ [](\A c \in connPeers :
             LET t == conn[c].transfer IN
             /\ conn[c].state \in {"delegated_upload", "delegated_download"}
                <=> t # NoTransfer
             /\ t # NoTransfer =>
                   c = IF t[1] = "d" THEN dl[t[2]].pconn ELSE up[t[2]].pconn
             /\ \A c2 \in connPeers \ {c} :
                   t # NoTransfer => conn[c2].transfer # t)
    /\ [][\A c \in ConnIds :
             /\ conn[c].transfer # NoTransfer
                => conn'[c].transfer \in {conn[c].transfer, NoTransfer}
             /\ \A d \in DlIds :
                   dl[d].pc = "gate_peer" /\ dl'[d].state = "processing" /\ dl'[d].pconn = c
                   => conn[c].state = "connected" /\ conn[c].transfer = NoTransfer]_vars

\* ------------------------------------------------------------- C35
\* C35: a download on which Close was requested while it waited for a peer connection
\* is never set as the transfer of a connection, neither by the NMDC handshake nor by
\* the ADC one
ClosedNeverDelegated ==
    [][\A c \in ConnIds : \A d \in DlIds :
          HandsOver(c, d) => ~dl[d].terminateRequested]_vars
====
